---- MODULE Spec2Model ----
(***************************************************************************)
(* Question flow engine of medico-med-backend.                             *)
(*                                                                         *)
(*   question_flow_engine.py  QuestionFlowEngine: catalog, dependency      *)
(*                            resolver, ordering, LangGraph workflow,      *)
(*                            process_message                              *)
(*   chatbot_engine.py        ChatbotEngine: the session store             *)
(*                            (question_flow_sessions) and the wrapper     *)
(*                            _get_response_with_question_flow             *)
(*                                                                         *)
(* Python dicts are functions, sets are sets, lists are sequences.  None   *)
(* is the string NoneVal.  Leading underscores of Python names are         *)
(* dropped.                                                                *)
(***************************************************************************)
EXTENDS Integers, Sequences, FiniteSets, Bags, TLC

\* ------------------------------------------------------------------------
\* Bounds of the model
\* ------------------------------------------------------------------------
NumSessions == 1
NumMessages == 2

SessionIds == 1..NumSessions

\* The user inputs the model draws from (the first NumMessages of them).
UserMessages == <<"yes", " 34 ", "n/a", "">>
Msgs == {UserMessages[i] : i \in 1..NumMessages}

NoneVal == "None"

\* ------------------------------------------------------------------------
\* Program constants
\* ------------------------------------------------------------------------
MAX_QUESTIONS == 2
DEFAULT_ORDER == 999

GREETING_SHORT == "Hello! I'm your Medical Assistant. I'll guide you through a structured consultation. Are you ready to begin?"
GREETING_LONG == "Hello! I'm your Medical Assistant. I'll be conducting a structured consultation to better understand your health concerns. This will help me provide you with appropriate guidance. Please note that this is for informational purposes only and does not replace professional medical diagnosis. Are you ready to begin?"

\* ------------------------------------------------------------------------
\* Catalogs (the content of questions.json after _flatten_questions)
\* ------------------------------------------------------------------------
\* str.split("_") of the labels used by the catalogs below
LabelSplit ==
  [l \in {"A_1", "A_2", "A_3", "B_1", "B_2", "X", "Y", "Z_x"} |->
     CASE l = "A_1" -> <<"A", "1">>
       [] l = "A_2" -> <<"A", "2">>
       [] l = "A_3" -> <<"A", "3">>
       [] l = "B_1" -> <<"B", "1">>
       [] l = "B_2" -> <<"B", "2">>
       [] l = "X"   -> <<"X">>
       [] l = "Y"   -> <<"Y">>
       [] l = "Z_x" -> <<"Z", "x">>]

\* int(s) of the label parts above: a value, or DEFAULT_ORDER from the
\* except branch of sort_key when int() raises
IntOf(s) ==
  CASE s = "1" -> 1
    [] s = "2" -> 2
    [] s = "3" -> 3
    [] OTHER -> DEFAULT_ORDER

Q(label, text, category) ==
  [label |-> label, question |-> text, category |-> category,
   subcategory |-> category \o "A"]

\* Scenario 1 of the specification: A_1, A_2 (after A_1), B_1
CatScenario1 ==
  [questions |-> << Q("A_1", "Are you ready to begin the consultation?", "A"),
                    Q("A_2", "How old are you in years?", "A"),
                    Q("B_1", "What is the main reason for your visit?", "B") >>,
   dependencies |-> [l \in {"A_2"} |-> {"A_1"}],
   priorities |-> [l \in {"A_1", "A_2", "B_1"} |-> IF l = "B_1" THEN 2 ELSE 1],
   flow_order |-> <<"A", "B">>]

\* Two labels that depend on each other: nothing is ever eligible
CatCycle ==
  [questions |-> << Q("X", "Do you smoke or use tobacco?", "A"),
                    Q("Y", "Do you drink alcohol regularly?", "A") >>,
   dependencies |-> [l \in {"X", "Y"} |-> IF l = "X" THEN {"Y"} ELSE {"X"}],
   priorities |-> [l \in {"X", "Y"} |-> 1],
   flow_order |-> <<"A">>]

\* File order differs from flow order: B_1, B_2 come first in the file
CatFileOrder ==
  [questions |-> << Q("B_1", "What is the main reason for your visit?", "B"),
                    Q("B_2", "When did the symptoms start?", "B"),
                    Q("A_1", "Are you ready to begin the consultation?", "A") >>,
   dependencies |-> [l \in {} |-> {}],
   priorities |-> [l \in {"A_1", "B_1", "B_2"} |-> 1],
   flow_order |-> <<"A", "B">>]

\* A chain with a priority inversion, an unset priority and a label whose
\* suffix is not a number, in a category that flow_order does not list
CatMixed ==
  [questions |-> << Q("A_2", "How old are you in years?", "A"),
                    Q("A_1", "Are you ready to begin the consultation?", "A"),
                    Q("Z_x", "Is there anything else to add?", "Z"),
                    Q("A_3", "Do you take any medication daily?", "A") >>,
   dependencies |-> [l \in {"A_3"} |-> {"A_1", "A_2"}],
   priorities |-> [l \in {"A_1", "A_2"} |-> IF l = "A_1" THEN 2 ELSE 1],
   flow_order |-> <<"A", "B">>]

\* A single question
CatSingle ==
  [questions |-> << Q("A_1", "Are you ready to begin the consultation?", "A") >>,
   dependencies |-> [l \in {} |-> {}],
   priorities |-> [l \in {"A_1"} |-> 1],
   flow_order |-> <<"A">>]

\* Two labels of different categories with one question text
CatDuplicate ==
  [questions |-> << Q("A_1", "Do you have any known allergies?", "A"),
                    Q("B_1", "Do you have any known allergies?", "B"),
                    Q("B_2", "When did the symptoms start?", "B") >>,
   dependencies |-> [l \in {} |-> {}],
   priorities |-> [l \in {"A_1", "B_1", "B_2"} |-> 1],
   flow_order |-> <<"A", "B">>]

\* A catalog whose first question is a name question
CatName ==
  [questions |-> << Q("A_1", "What is the name of your family doctor?", "A"),
                    Q("A_2", "How old are you in years?", "A") >>,
   dependencies |-> [l \in {"A_2"} |-> {"A_1"}],
   priorities |-> [l \in {"A_1", "A_2"} |-> 1],
   flow_order |-> <<"A">>]

Catalogs == {CatScenario1, CatCycle, CatFileOrder, CatMixed, CatSingle}

LabelsOf(cat) == {cat.questions[i].label : i \in 1..Len(cat.questions)}
QuestionOf(cat, label) ==
  CHOOSE q \in {cat.questions[i] : i \in 1..Len(cat.questions)} : q.label = label
DepsOf(cat, label) ==
  IF label \in DOMAIN cat.dependencies THEN cat.dependencies[label] ELSE {}

\* ------------------------------------------------------------------------
\* Dependency resolver and ordering
\* ------------------------------------------------------------------------
RECURSIVE AvailableFrom_nodeps(_, _, _, _)
\* AvailableFrom without the check of the dependencies
AvailableFrom_nodeps(cat, answered, i, acc) ==
  IF i > Len(cat.questions) THEN acc
  ELSE LET q == cat.questions[i] IN
       IF q.label \in answered THEN AvailableFrom_nodeps(cat, answered, i + 1, acc)
       ELSE IF TRUE
            THEN LET acc2 == Append(acc, [id |-> q.label, question |-> q.question,
                                          category |-> q.category,
                                          subcategory |-> q.subcategory,
                                          label |-> q.label])
                 IN IF Len(acc2) >= MAX_QUESTIONS THEN acc2
                    ELSE AvailableFrom_nodeps(cat, answered, i + 1, acc2)
            ELSE AvailableFrom_nodeps(cat, answered, i + 1, acc)

RECURSIVE AvailableFrom(_, _, _, _)
\* the for loop of _get_available_questions from position i on, with the
\* questions found so far in acc
AvailableFrom(cat, answered, i, acc) ==
  IF i > Len(cat.questions) THEN acc
  ELSE LET q == cat.questions[i] IN
       IF q.label \in answered THEN AvailableFrom(cat, answered, i + 1, acc)
       ELSE IF DepsOf(cat, q.label) \subseteq answered
            THEN LET acc2 == Append(acc, [id |-> q.label, question |-> q.question,
                                          category |-> q.category,
                                          subcategory |-> q.subcategory,
                                          label |-> q.label])
                 IN IF Len(acc2) >= MAX_QUESTIONS THEN acc2
                    ELSE AvailableFrom(cat, answered, i + 1, acc2)
            ELSE AvailableFrom(cat, answered, i + 1, acc)

\* get_available_questions that takes no label for answered
get_available_questions_forgetful(cat, answered) ==
  AvailableFrom(cat, {}, 1, <<>>)

get_available_questions(cat, answered) ==
  IF Cardinality(answered) >= MAX_QUESTIONS THEN <<>>
  ELSE AvailableFrom(cat, answered, 1, <<>>)

\* category_order_map.get(category, 999); a category listed twice keeps
\* its last index
CategoryOrder(cat, category) ==
  LET idx == {i \in 1..Len(cat.flow_order) : cat.flow_order[i] = category}
  IN IF idx = {} THEN DEFAULT_ORDER
     ELSE (CHOOSE i \in idx : \A j \in idx : j <= i) - 1

sort_key(cat, q) ==
  LET parts == LabelSplit[q.id]
      q_num == IF Len(parts) >= 2 THEN IntOf(parts[2]) ELSE DEFAULT_ORDER
      priority == IF q.id \in DOMAIN cat.priorities THEN cat.priorities[q.id]
                  ELSE DEFAULT_ORDER
  IN << CategoryOrder(cat, q.category), priority, q_num >>

\* tuple comparison of Python: k1 < k2
KeyLess(k1, k2) ==
  \/ k1[1] < k2[1]
  \/ k1[1] = k2[1] /\ k1[2] < k2[2]
  \/ k1[1] = k2[1] /\ k1[2] = k2[2] /\ k1[3] < k2[3]

RECURSIVE InsertSorted(_, _, _)
\* insert q after every element whose key is not greater (stable)
InsertSorted(cat, sorted, q) ==
  IF sorted = <<>> THEN <<q>>
  ELSE IF KeyLess(sort_key(cat, q), sort_key(cat, Head(sorted)))
       THEN <<q>> \o sorted
       ELSE <<Head(sorted)>> \o InsertSorted(cat, Tail(sorted), q)

RECURSIVE sort_questions_by_order(_, _)
\* sorted(questions, key=sort_key): a stable sort
sort_questions_by_order(cat, questions) ==
  IF questions = <<>> THEN <<>>
  ELSE InsertSorted(cat,
         sort_questions_by_order(cat, SubSeq(questions, 1, Len(questions) - 1)),
         questions[Len(questions)])

\* a judge that lets the answers given so far decide: the last question of the
\* ordering once some answer is the first user input, the first otherwise
judge_by_answers(cat, available_questions, conversation_history, current_answers) ==
  IF available_questions = <<>> THEN NoneVal
  ELSE LET sorted == sort_questions_by_order(cat, available_questions)
       IN IF \E l \in DOMAIN current_answers : current_answers[l] = UserMessages[1]
          THEN sorted[Len(sorted)].id
          ELSE sorted[1].id

\* conversation_history and current_answers are passed in and not used
judge_next_question(cat, available_questions, conversation_history, current_answers) ==
  IF available_questions = <<>> THEN NoneVal
  ELSE sort_questions_by_order(cat, available_questions)[1].id

\* ------------------------------------------------------------------------
\* Dicts and messages
\* ------------------------------------------------------------------------
EmptyDict == [k \in {} |-> NoneVal]
Put(d, k, v) == [x \in (DOMAIN d) \cup {k} |-> IF x = k THEN v ELSE d[x]]
\* {**a, **b}: the entries of b take precedence
DictMerge(a, b) ==
  [x \in (DOMAIN a) \cup (DOMAIN b) |-> IF x \in DOMAIN b THEN b[x] ELSE a[x]]

HumanMessage(content) == [type |-> "human", content |-> content]
AIMessage(content) == [type |-> "ai", content |-> content]
StrMessage(content) == [type |-> "str", content |-> content]
Contents(messages) == [i \in 1..Len(messages) |-> StrMessage(messages[i].content)]

\* q_data["question"] == text or q_data["question"][:50] in text, for the
\* question texts of the catalogs above: each has fewer than 50 characters
\* and none is part of another
TextMatches(question, text) == question = text

\* the first question of the catalog, in file order, whose text matches
MatchingQuestion(cat, text) ==
  LET idx == {i \in 1..Len(cat.questions) : TextMatches(cat.questions[i].question, text)}
  IN IF idx = {} THEN NoneVal
     ELSE cat.questions[CHOOSE i \in idx : \A j \in idx : i <= j].label

\* ------------------------------------------------------------------------
\* The LangGraph workflow: process_answer -> select_question ->
\* ask_question -> check_completion -> END
\* ------------------------------------------------------------------------
\* A session state as process_message receives and returns it
FreshSessionState ==
  [answered_questions |-> {}, asked_questions |-> {}, answers |-> EmptyDict,
   question_embeddings |-> {}, messages |-> <<>>,
   current_question_id |-> NoneVal, current_question_text |-> EmptyDict]

\* embed_query succeeded (ok) or raised: the entry is appended to
\* answer_embeddings_store only when it succeeded.  The list is kept as a
\* bag: the program uses its length and its entries, never their order.
store_answer_with_embedding(cat, store, question_id, answer, ok) ==
  IF ok
  THEN store (+) SetToBag({[question_id |-> question_id,
                               question |-> IF question_id \in LabelsOf(cat)
                                            THEN QuestionOf(cat, question_id).question
                                            ELSE "",
                               answer |-> answer]})
  ELSE store

\* the question the last AIMessage of the history asked, when the state has
\* no current_question_id
QuestionFromHistory(cat, messages) ==
  LET hits == {i \in 1..Len(messages) :
                 /\ messages[i].type = "ai"
                 /\ MatchingQuestion(cat, messages[i].content) # NoneVal}
  IN IF hits = {} THEN NoneVal
     ELSE MatchingQuestion(cat, messages[CHOOSE i \in hits : \A j \in hits : j <= i].content)

\* process_answer_node that replaces the answers dict by the new answer
process_answer_node_replace(cat, state, store, ok) ==
  LET humans == {i \in 1..Len(state.messages) : state.messages[i].type = "human"}
  IN
  IF humans = {} THEN [state |-> state, store |-> store]
  ELSE
    LET answer == state.messages[CHOOSE i \in humans : \A j \in humans : j <= i].content
        question_id == IF state.current_question_id # NoneVal
                       THEN state.current_question_id
                       ELSE QuestionFromHistory(cat, state.messages)
    IN
    IF question_id = NoneVal THEN [state |-> state, store |-> store]
    ELSE
      LET embed == question_id \notin state.question_embeddings
      IN [state |-> [state EXCEPT
                       !.current_question_id = question_id,
                       !.answers = Put(EmptyDict, question_id, answer),
                       !.answered_questions = @ \cup {question_id},
                       !.question_embeddings =
                          IF embed /\ ok THEN @ \cup {question_id} ELSE @],
          store |-> IF embed
                    THEN store_answer_with_embedding(cat, store, question_id, answer, ok)
                    ELSE store]

process_answer_node(cat, state, store, ok) ==
  LET humans == {i \in 1..Len(state.messages) : state.messages[i].type = "human"}
  IN
  IF humans = {} THEN [state |-> state, store |-> store]
  ELSE
    LET answer == state.messages[CHOOSE i \in humans : \A j \in humans : j <= i].content
        question_id == IF state.current_question_id # NoneVal
                       THEN state.current_question_id
                       ELSE QuestionFromHistory(cat, state.messages)
    IN
    IF question_id = NoneVal THEN [state |-> state, store |-> store]
    ELSE
      LET embed == question_id \notin state.question_embeddings
      IN [state |-> [state EXCEPT
                       !.current_question_id = question_id,
                       !.answers = Put(@, question_id, answer),
                       !.answered_questions = @ \cup {question_id},
                       !.question_embeddings =
                          IF embed /\ ok THEN @ \cup {question_id} ELSE @],
          store |-> IF embed
                    THEN store_answer_with_embedding(cat, store, question_id, answer, ok)
                    ELSE store]

\* the fallback of _select_question_node: the first of the sorted questions
first_sorted_id(cat, questions) ==
  IF questions = <<>> THEN NoneVal
  ELSE sort_questions_by_order(cat, questions)[1].id

\* the end of _select_question_node: selected_id is taken when it is one of
\* the available questions, else the first of the sorted questions
select_question_node_selected(cat, st1, available2, selected_id) ==
  IF selected_id # NoneVal
       /\ selected_id \in {available2[i].id : i \in 1..Len(available2)}
  THEN [st1 EXCEPT !.current_question_id = selected_id]
  ELSE IF available2 # <<>>
       THEN [st1 EXCEPT !.current_question_id = first_sorted_id(cat, available2)]
       ELSE [st1 EXCEPT !.current_question_id = NoneVal, !.flow_complete = TRUE]

\* the check that the judged question is not answered already: if it is, it
\* is removed from the available questions and the first of the rest is taken
select_question_node_judged(cat, st1, available, judged) ==
  IF judged # NoneVal /\ judged \in st1.answered_questions
  THEN select_question_node_selected(cat, st1,
         SelectSeq(available, LAMBDA q : q.id # judged),
         first_sorted_id(cat, SelectSeq(available, LAMBDA q : q.id # judged)))
  ELSE select_question_node_selected(cat, st1, available, judged)

\* select_question_node_available that keeps current_question_id when nothing
\* is left
select_question_node_available_keep_current(cat, st1, available) ==
  IF available = <<>>
  THEN [st1 EXCEPT !.flow_complete = TRUE]
  ELSE select_question_node_judged(cat, st1, available,
         judge_next_question(cat, available,
           {[question_id |-> qid, content |-> st1.answers[qid]] : qid \in DOMAIN st1.answers},
           st1.answers))

\* _select_question_node once the available questions are known: nothing
\* available completes the flow, else the judge selects
select_question_node_available(cat, st1, available) ==
  IF available = <<>>
  THEN [st1 EXCEPT !.flow_complete = TRUE, !.current_question_id = NoneVal]
  ELSE select_question_node_judged(cat, st1, available,
         judge_next_question(cat, available,
           {[question_id |-> qid, content |-> st1.answers[qid]] : qid \in DOMAIN st1.answers},
           st1.answers))

\* the keys of answers are added to answered_questions first
select_question_node(cat, state) ==
  select_question_node_available(cat,
    [state EXCEPT !.answered_questions = @ \cup DOMAIN state.answers],
    get_available_questions(cat, state.answered_questions \cup DOMAIN state.answers))

\* The node also adds the label to state["asked_questions"]; the key is not
\* part of QuestionFlowState and process_message never reads it back.
ask_question_node(cat, state) ==
  LET question_id == state.current_question_id
  IN IF question_id # NoneVal /\ question_id \in LabelsOf(cat)
     THEN [state EXCEPT !.messages =
             Append(@, AIMessage(QuestionOf(cat, question_id).question))]
     ELSE state

check_completion_node(cat, state) ==
  [state EXCEPT !.flow_complete =
     (get_available_questions(cat, state.answered_questions) = <<>>)]

\* workflow.ainvoke(initial_state)
Workflow(cat, initial_state, store, ok) ==
  LET a == process_answer_node(cat, initial_state, store, ok)
      s == select_question_node(cat, a.state)
      q == ask_question_node(cat, s)
      c == check_completion_node(cat, q)
  IN [state |-> c, store |-> a.store]

\* ------------------------------------------------------------------------
\* QuestionFlowEngine.process_message
\* ------------------------------------------------------------------------
\* workflow.get_state(config) raises: the workflow is compiled without a
\* checkpointer
NoCheckpoint == [none |-> TRUE]

\* MergeExisting that takes the answers of the memory as they are
MergeExisting_overwrite(existing, initial_state, user_message) ==
  LET answered1 == IF existing.answered_questions # {}
                   THEN initial_state.answered_questions \cup existing.answered_questions
                   ELSE initial_state.answered_questions
      merged_answers == IF DOMAIN existing.answers # {}
                        THEN existing.answers
                        ELSE initial_state.answers
      answered2 == IF DOMAIN existing.answers # {}
                   THEN answered1 \cup DOMAIN merged_answers
                   ELSE answered1
  IN [initial_state EXCEPT
        !.answered_questions = answered2,
        !.answers = merged_answers,
        !.question_embeddings =
           IF existing.question_embeddings # {}
           THEN existing.question_embeddings \cup @ ELSE @,
        !.current_question_id =
           IF @ = NoneVal /\ existing.current_question_id # NoneVal
           THEN existing.current_question_id ELSE @,
        !.messages = existing.messages \o <<HumanMessage(user_message)>>]

\* The merge of the state held by the LangGraph memory (existing) into the
\* state of the call in progress (initial_state)
MergeExisting_loaded_wins(existing, initial_state, user_message) ==
  LET answered1 == IF existing.answered_questions # {}
                   THEN initial_state.answered_questions \cup existing.answered_questions
                   ELSE initial_state.answered_questions
      merged_answers == IF DOMAIN existing.answers # {}
                        THEN DictMerge(initial_state.answers, existing.answers)
                        ELSE initial_state.answers
      answered2 == IF DOMAIN existing.answers # {}
                   THEN answered1 \cup DOMAIN merged_answers
                   ELSE answered1
  IN [initial_state EXCEPT
        !.answered_questions = answered2,
        !.answers = merged_answers,
        !.question_embeddings =
           IF existing.question_embeddings # {}
           THEN existing.question_embeddings \cup @ ELSE @,
        !.current_question_id =
           IF @ = NoneVal /\ existing.current_question_id # NoneVal
           THEN existing.current_question_id ELSE @,
        !.messages = existing.messages \o <<HumanMessage(user_message)>>]

MergeExisting_loaded_label(existing, initial_state, user_message) ==
  LET answered1 == IF existing.answered_questions # {}
                   THEN initial_state.answered_questions \cup existing.answered_questions
                   ELSE initial_state.answered_questions
      merged_answers == IF DOMAIN existing.answers # {}
                        THEN DictMerge(existing.answers, initial_state.answers)
                        ELSE initial_state.answers
      answered2 == IF DOMAIN existing.answers # {}
                   THEN answered1 \cup DOMAIN merged_answers
                   ELSE answered1
  IN [initial_state EXCEPT
        !.answered_questions = answered2,
        !.answers = merged_answers,
        !.question_embeddings =
           IF existing.question_embeddings # {}
           THEN existing.question_embeddings \cup @ ELSE @,
        !.current_question_id =
           IF existing.current_question_id # NoneVal
           THEN existing.current_question_id ELSE @,
        !.messages = existing.messages \o <<HumanMessage(user_message)>>]

MergeExisting(existing, initial_state, user_message) ==
  LET answered1 == IF existing.answered_questions # {}
                   THEN initial_state.answered_questions \cup existing.answered_questions
                   ELSE initial_state.answered_questions
      merged_answers == IF DOMAIN existing.answers # {}
                        THEN DictMerge(existing.answers, initial_state.answers)
                        ELSE initial_state.answers
      answered2 == IF DOMAIN existing.answers # {}
                   THEN answered1 \cup DOMAIN merged_answers
                   ELSE answered1
  IN [initial_state EXCEPT
        !.answered_questions = answered2,
        !.answers = merged_answers,
        !.question_embeddings =
           IF existing.question_embeddings # {}
           THEN existing.question_embeddings \cup @ ELSE @,
        !.current_question_id =
           IF @ = NoneVal /\ existing.current_question_id # NoneVal
           THEN existing.current_question_id ELSE @,
        !.messages = existing.messages \o <<HumanMessage(user_message)>>]

\* is_first_interaction that looks at the current question only
is_first_interaction_current_only(session_state) ==
  session_state.current_question_id = NoneVal

\* no question answered yet and no current question
is_first_interaction(session_state) ==
  session_state.answered_questions = {} /\ session_state.current_question_id = NoneVal

\* a first interaction that takes the input for the answer of the question
\* it returns
first_interaction_records_input(cat, user_message, session_state, store) ==
  LET available == get_available_questions(cat, {})
  IN
  IF available # <<>>
  THEN
    LET first_question == sort_questions_by_order(cat, available)[1]
    IN [result |-> [response |-> first_question.question,
                    next_question |-> first_question.question,
                    flow_complete |-> FALSE,
                    answered_count |-> 0,
                    total_questions |-> Len(cat.questions),
                    embeddings_count |-> BagCardinality(store),
                    current_question_id |-> first_question.id,
                    error |-> FALSE],
        session_state |->
          [session_state EXCEPT
             !.messages = @ \o <<StrMessage(user_message),
                                 StrMessage(first_question.question)>>,
             !.current_question_id = first_question.id,
             !.asked_questions = @ \cup {first_question.id},
             !.answers = Put(@, first_question.id, user_message),
             !.answered_questions = @ \cup {first_question.id}],
        initial_state |-> NoCheckpoint,
        store |-> store]
  ELSE [result |-> [response |-> GREETING_SHORT,
                    next_question |-> NoneVal,
                    flow_complete |-> FALSE,
                    answered_count |-> 0,
                    total_questions |-> Len(cat.questions),
                    embeddings_count |-> 0,
                    current_question_id |-> NoneVal,
                    error |-> TRUE],
        session_state |-> session_state,
        initial_state |-> NoCheckpoint,
        store |-> store]

\* the first interaction: the first question is returned and the workflow
\* does not run
first_interaction(cat, user_message, session_state, store) ==
  LET available == get_available_questions(cat, {})
  IN
  IF available # <<>>
  THEN
    LET first_question == sort_questions_by_order(cat, available)[1]
    IN [result |-> [response |-> first_question.question,
                    next_question |-> first_question.question,
                    flow_complete |-> FALSE,
                    answered_count |-> 0,
                    total_questions |-> Len(cat.questions),
                    embeddings_count |-> BagCardinality(store),
                    current_question_id |-> first_question.id,
                    error |-> FALSE],
        session_state |->
          [session_state EXCEPT
             !.messages = @ \o <<StrMessage(user_message),
                                 StrMessage(first_question.question)>>,
             !.current_question_id = first_question.id,
             !.asked_questions = @ \cup {first_question.id}],
        initial_state |-> NoCheckpoint,
        store |-> store]
  ELSE [result |-> [response |-> GREETING_SHORT,
                    next_question |-> NoneVal,
                    flow_complete |-> FALSE,
                    answered_count |-> 0,
                    total_questions |-> Len(cat.questions),
                    embeddings_count |-> 0,
                    current_question_id |-> NoneVal,
                    error |-> TRUE],
        session_state |-> session_state,
        initial_state |-> NoCheckpoint,
        store |-> store]

\* initial_state of the workflow: the input is stored as the answer of the
\* current question, then the state of the memory is merged in, or, when
\* get_state raises, the history of messages is dropped
initial_state_of(user_message, session_state, existing) ==
  LET current_q_id == session_state.current_question_id
      initial_state0 ==
        [messages |-> session_state.messages \o <<HumanMessage(user_message)>>,
         answered_questions |->
           IF current_q_id # NoneVal
           THEN session_state.answered_questions \cup {current_q_id}
           ELSE session_state.answered_questions,
         answers |->
           IF current_q_id # NoneVal
           THEN Put(session_state.answers, current_q_id, user_message)
           ELSE session_state.answers,
         question_embeddings |-> session_state.question_embeddings,
         current_question_id |-> current_q_id,
         flow_complete |-> FALSE]
  IN IF existing = NoCheckpoint
     THEN [initial_state0 EXCEPT !.messages = <<HumanMessage(user_message)>>]
     ELSE MergeExisting(existing, initial_state0, user_message)

\* a response without a current_question_id: the question is looked up by
\* its text
result_question_id(cat, final_state, response_text) ==
  IF final_state.current_question_id = NoneVal /\ response_text # ""
        /\ MatchingQuestion(cat, response_text) # NoneVal
  THEN MatchingQuestion(cat, response_text)
  ELSE final_state.current_question_id

\* what process_message returns and stores in session_state once the workflow
\* has run (run) on initial_state; last_message is the last message of the
\* final state
process_message_result(cat, session_state, initial_state, run, last_message) ==
  [result |-> [response |-> IF last_message.type = "ai" THEN last_message.content ELSE "",
               next_question |-> IF last_message.type = "ai" THEN last_message.content
                                 ELSE NoneVal,
               flow_complete |-> run.state.flow_complete,
               answered_count |-> Cardinality(run.state.answered_questions),
               total_questions |-> Len(cat.questions),
               embeddings_count |-> BagCardinality(run.store),
               current_question_id |->
                 result_question_id(cat, run.state,
                   IF last_message.type = "ai" THEN last_message.content ELSE ""),
               error |-> FALSE],
   session_state |->
     [session_state EXCEPT
        !.answered_questions = run.state.answered_questions \cup DOMAIN run.state.answers,
        !.answers = run.state.answers,
        !.question_embeddings = run.state.question_embeddings,
        !.current_question_id =
           result_question_id(cat, run.state,
             IF last_message.type = "ai" THEN last_message.content ELSE ""),
        !.messages = Contents(run.state.messages)],
   initial_state |-> initial_state,
   store |-> run.store]

\* the workflow has run: its last message is the response
process_message_done(cat, session_state, initial_state, run) ==
  process_message_result(cat, session_state, initial_state, run,
                         run.state.messages[Len(run.state.messages)])

process_message(cat, user_message, session_state, store, existing, ok) ==
  IF is_first_interaction(session_state)
  THEN first_interaction(cat, user_message, session_state, store)
  ELSE process_message_done(cat, session_state,
         initial_state_of(user_message, session_state, existing),
         Workflow(cat, initial_state_of(user_message, session_state, existing),
                  store, ok))

\* ------------------------------------------------------------------------
\* ChatbotEngine._get_response_with_question_flow
\* ------------------------------------------------------------------------
\* str.strip(): the text without its leading and trailing whitespace
Whitespace == {" ", "\t", "\n"}

\* the first position from i on that holds no whitespace
RECURSIVE LeftEnd(_, _)
LeftEnd(s, i) ==
  IF i > Len(s) \/ SubSeq(s, i, i) \notin Whitespace THEN i ELSE LeftEnd(s, i + 1)

\* the last position up to i that holds no whitespace
RECURSIVE RightEnd(_, _)
RightEnd(s, i) ==
  IF i < 1 \/ SubSeq(s, i, i) \notin Whitespace THEN i ELSE RightEnd(s, i - 1)

Strip(s) ==
  IF LeftEnd(s, 1) > Len(s) THEN "" ELSE SubSeq(s, LeftEnd(s, 1), RightEnd(s, Len(s)))

\* 'name' in text.lower() and ('what' in text.lower() or 'your name' in
\* text.lower()), for the texts of the model
NameQuestionTexts == {"What is the name of your family doctor?"}
IsNameQuestion(text) == text \in NameQuestionTexts

CompletionMessage(answered_count) ==
  "Thank you for completing the medical consultation. I've collected "
     \o ToString(answered_count) \o " pieces of information."

\* the session state of session_id, created when it does not exist
session_state_of(sessions, session_id) ==
  IF session_id \in DOMAIN sessions THEN sessions[session_id] ELSE FreshSessionState

is_first_message(session_state) ==
  /\ session_state.current_question_id = NoneVal
  /\ session_state.asked_questions = {}
  /\ session_state.answered_questions = {}
  /\ DOMAIN session_state.answers = {}

\* a marking that takes the input for the answer of every question asked so far
mark_answered_all_asked(session_state, message) ==
  IF ~is_first_message(session_state) /\ session_state.current_question_id # NoneVal
  THEN [session_state EXCEPT
          !.asked_questions = @ \cup {session_state.current_question_id},
          !.answers = DictMerge(@, [l \in session_state.asked_questions
                                            \cup {session_state.current_question_id}
                                      |-> message]),
          !.answered_questions = @ \cup session_state.asked_questions
                                   \cup {session_state.current_question_id}]
  ELSE session_state

\* the pending question is marked asked and answered before the engine runs
mark_answered(session_state, message) ==
  IF ~is_first_message(session_state) /\ session_state.current_question_id # NoneVal
  THEN [session_state EXCEPT
          !.asked_questions = @ \cup {session_state.current_question_id},
          !.answers = Put(@, session_state.current_question_id, message),
          !.answered_questions = @ \cup {session_state.current_question_id}]
  ELSE session_state

\* after the engine returned: on the first message the first question is
\* marked asked; later the text of a new current question is kept
mark_asked(first_message, previous_current_q, flow_result, updated_session_state) ==
  IF first_message
  THEN IF flow_result.current_question_id # NoneVal
       THEN [updated_session_state EXCEPT
               !.current_question_id = flow_result.current_question_id,
               !.asked_questions = @ \cup {flow_result.current_question_id}]
       ELSE updated_session_state
  ELSE IF flow_result.current_question_id # NoneVal
            /\ Strip(flow_result.response) # ""
            /\ flow_result.current_question_id # previous_current_q
       THEN [updated_session_state EXCEPT
               !.current_question_text =
                  Put(@, flow_result.current_question_id, Strip(flow_result.response))]
       ELSE updated_session_state

\* a merge that counts the question just asked among the answered ones
merge_flow_result_marks_current(flow_result, updated_session_state, session_state2) ==
  [session_state2 EXCEPT
     !.current_question_id = flow_result.current_question_id,
     !.answers = DictMerge(@, updated_session_state.answers),
     !.answered_questions =
        (updated_session_state.answered_questions
           \cup DOMAIN DictMerge(session_state2.answers, updated_session_state.answers))
          \cup ({flow_result.current_question_id} \ {NoneVal})]

\* the state of flow_result is merged into session_state
merge_flow_result(flow_result, updated_session_state, session_state2) ==
  [session_state2 EXCEPT
     !.current_question_id = flow_result.current_question_id,
     !.answers = DictMerge(@, updated_session_state.answers),
     !.answered_questions =
        updated_session_state.answered_questions
          \cup DOMAIN DictMerge(session_state2.answers, updated_session_state.answers)]

\* the question that replaces a name question or an empty response: the first
\* available one, or the greeting when there is none
replacement(cat, answered_now, greeting) ==
  IF get_available_questions(cat, answered_now) # <<>>
  THEN [text |-> sort_questions_by_order(cat,
                   get_available_questions(cat, answered_now))[1].question,
        id |-> sort_questions_by_order(cat,
                 get_available_questions(cat, answered_now))[1].id]
  ELSE [text |-> greeting, id |-> NoneVal]

\* a response that is a name question is replaced by the long greeting
without_name_question(r2) ==
  IF r2.text # "" /\ IsNameQuestion(r2.text)
  THEN [text |-> GREETING_LONG, id |-> NoneVal]
  ELSE r2

\* an empty response is replaced
without_empty_response(cat, answered_now, r1) ==
  IF r1.text = "" THEN replacement(cat, answered_now, GREETING_SHORT) ELSE r1

\* the response text, and the label of the question it shows
response_of(cat, flow_result, answered_now) ==
  IF flow_result.flow_complete
  THEN [text |-> CompletionMessage(flow_result.answered_count), id |-> NoneVal]
  ELSE without_name_question(
         without_empty_response(cat, answered_now,
           IF flow_result.response # "" /\ IsNameQuestion(flow_result.response)
           THEN replacement(cat, answered_now, GREETING_LONG)
           ELSE [text |-> flow_result.response,
                 id |-> IF flow_result.response = "" \/ flow_result.error
                        THEN NoneVal ELSE flow_result.current_question_id]))

\* the session state is saved and the response returned
saved_and_returned(sessions, session_id, run, session_state3, response) ==
  [sessions |-> Put(sessions, session_id, session_state3),
   store |-> run.store,
   flow_result |-> run.result,
   response_metadata |->
     [response |-> response.text,
      question_flow |-> [active |-> TRUE,
                         flow_complete |-> run.result.flow_complete,
                         answered_count |-> run.result.answered_count,
                         total_questions |-> run.result.total_questions,
                         embeddings_count |-> run.result.embeddings_count]],
   \* the label of the question whose text the response shows
   shown |-> response.id]

\* the engine returned run and session_state3 is the session state to save
state_merged(cat, sessions, session_id, run, session_state3) ==
  saved_and_returned(sessions, session_id, run, session_state3,
    response_of(cat, run.result, session_state3.answered_questions))

\* the engine returned run for a session whose state was session_state0
engine_returned(cat, sessions, session_id, session_state0, run) ==
  state_merged(cat, sessions, session_id, run,
    merge_flow_result(run.result, run.session_state,
      mark_asked(is_first_message(session_state0), session_state0.current_question_id,
                 run.result, run.session_state)))

get_response_with_question_flow(cat, sessions, store, session_id, message, ok) ==
  engine_returned(cat, sessions, session_id, session_state_of(sessions, session_id),
    process_message(cat, message,
                    mark_answered(session_state_of(sessions, session_id), message),
                    store, NoCheckpoint, ok))

\* ------------------------------------------------------------------------
\* State
\* ------------------------------------------------------------------------
VARIABLES
  catalog,                \* QuestionFlowEngine.questions, dependencies, priorities, flow_order
  caller,                 \* who drives the engine: ChatbotEngine or a script such as test_question_flow
  embeddings_available,   \* whether embeddings_model.embed_query answers or raises
  question_flow_sessions, \* ChatbotEngine.question_flow_sessions
  answer_embeddings_store,\* QuestionFlowEngine.answer_embeddings_store
  direct_state,           \* the session_state a script passes to process_message and gets back
  turns,                  \* per session: what the last call for it returned
  merge_in,               \* SpecMerge: <<the arguments of one process_message call>>
  merge_out               \* SpecMerge: <<what that call returned>>, empty before it

VARIABLES
  in_flight,              \* SpecConc, SpecIso: the calls suspended in await
  was_reset               \* SpecConc: the sessions reset while a call may be suspended

conc_vars == <<in_flight, was_reset>>

VARIABLES
  temp_qa_storage,        \* ChatbotEngine.temp_qa_storage
  responses_collection,   \* the documents of MongoDBService.responses_collection, by email
  export_in,              \* SpecExport: <<the arguments of one save_user_responses call>>
  export_out,             \* SpecExport: <<what that call kept and returned>>, empty before it
  last_call               \* SpecFaults: <<the last call of get_response and what it returned>>

export_vars == <<temp_qa_storage, responses_collection, export_in, export_out, last_call>>

vars == <<catalog, caller, embeddings_available, question_flow_sessions,
          answer_embeddings_store, direct_state, turns, merge_in, merge_out,
          conc_vars, export_vars>>

Direct == 0   \* the key of the script's only session in turns

\* what a call returned, as far as the properties below speak of it
Returned(flow_result, response, shown) ==
  [response |-> response,
   shown |-> shown,
   current_question_id |-> flow_result.current_question_id,
   flow_complete |-> flow_result.flow_complete,
   answered_count |-> flow_result.answered_count]

\* nothing was kept for export, and no export is under way
NoExport ==
  /\ temp_qa_storage = EmptyDict
  /\ responses_collection = EmptyDict
  /\ export_in = <<>>
  /\ export_out = <<>>
  /\ last_call = <<>>

Init ==
  /\ catalog \in Catalogs
  /\ caller \in {"chatbot", "script"}
  /\ embeddings_available \in BOOLEAN
  /\ question_flow_sessions = EmptyDict
  /\ answer_embeddings_store = EmptyBag
  /\ direct_state = FreshSessionState
  /\ turns = EmptyDict
  /\ merge_in = <<>>
  /\ merge_out = <<>>
  /\ in_flight = EmptyBag
  /\ was_reset = {}
  /\ NoExport

\* get_response returned out for session sid
TurnReturned(sid, out) ==
  /\ question_flow_sessions' = out.sessions
  /\ answer_embeddings_store' = out.store
  /\ turns' = Put(turns, sid, Returned(out.flow_result,
                                       out.response_metadata.response, out.shown))
  /\ UNCHANGED <<catalog, caller, embeddings_available, direct_state,
                 merge_in, merge_out, conc_vars, export_vars>>

\* One user message of session sid through ChatbotEngine.get_response
Turn(sid, message) ==
  /\ caller = "chatbot"
  /\ TurnReturned(sid, get_response_with_question_flow(catalog, question_flow_sessions,
                         answer_embeddings_store, sid, message, embeddings_available))

\* ChatbotEngine.reset_question_flow(session_id)
Reset(sid) ==
  /\ caller = "chatbot"
  /\ question_flow_sessions' =
       [s \in (DOMAIN question_flow_sessions) \ {sid} |-> question_flow_sessions[s]]
  /\ answer_embeddings_store' = EmptyBag
  /\ turns' = [s \in (DOMAIN turns) \ {sid} |-> turns[s]]
  /\ UNCHANGED <<catalog, caller, embeddings_available, direct_state,
                 merge_in, merge_out, conc_vars, export_vars>>

\* process_message returned out to the script
DirectReturned(out) ==
  /\ direct_state' = out.session_state
  /\ answer_embeddings_store' = out.store
  /\ turns' = Put(turns, Direct, Returned(out.result, out.result.response,
                                          out.result.current_question_id))
  /\ UNCHANGED <<catalog, caller, embeddings_available, question_flow_sessions,
                 merge_in, merge_out, conc_vars, export_vars>>

\* A script calls process_message with the session_state the previous call
\* returned, as test_question_flow does for its first call
DirectTurn(message) ==
  /\ caller = "script"
  /\ DirectReturned(process_message(catalog, message, direct_state,
                                    answer_embeddings_store, NoCheckpoint,
                                    embeddings_available))

Next ==
  \/ \E sid \in SessionIds, message \in Msgs : Turn(sid, message)
  \/ \E sid \in SessionIds : Reset(sid)
  \/ \E message \in Msgs : DirectTurn(message)

Spec == Init /\ [][Next]_vars

\* ------------------------------------------------------------------------
\* The merge of process_message as a function of its inputs: the state the
\* LangGraph memory returns for the thread (existing) and the session state
\* of the call in progress
\* ------------------------------------------------------------------------
\* the dicts from the labels in keys to user inputs
AnswerDicts(keys) == [keys -> Msgs]

\* a state a workflow run left in the LangGraph memory: every answered label
\* has an answer, and the question asked last is the last message
ExistingStates(cat) ==
  {[answered_questions |-> a, answers |-> ans,
    question_embeddings |-> a,
    current_question_id |-> cur,
    messages |-> IF cur = NoneVal THEN <<HumanMessage(UserMessages[1])>>
                 ELSE <<HumanMessage(UserMessages[1]),
                        AIMessage(QuestionOf(cat, cur).question)>>,
    flow_complete |-> (cur = NoneVal)] :
      a \in {x \in SUBSET LabelsOf(cat) : x # {} /\ Cardinality(x) <= MAX_QUESTIONS},
      ans \in UNION {AnswerDicts(k) : k \in {x \in SUBSET LabelsOf(cat) : x # {}}},
      cur \in LabelsOf(cat) \cup {NoneVal}}

WellFormedExisting(e) ==
  /\ DOMAIN e.answers = e.answered_questions
  /\ e.current_question_id \notin e.answered_questions

\* a session state of a call in progress that is not a first interaction
InProgressStates(cat) ==
  {[FreshSessionState EXCEPT
      !.answered_questions = a, !.asked_questions = a \cup ({cur} \ {NoneVal}),
      !.answers = ans, !.question_embeddings = a,
      !.current_question_id = cur] :
      a \in {x \in SUBSET LabelsOf(cat) : Cardinality(x) <= MAX_QUESTIONS},
      ans \in UNION {AnswerDicts(k) : k \in SUBSET LabelsOf(cat)},
      cur \in LabelsOf(cat) \cup {NoneVal}}

WellFormedInProgress(st) ==
  /\ DOMAIN st.answers = st.answered_questions
  /\ st.current_question_id \notin st.answered_questions
  /\ ~is_first_interaction(st)

InitMerge ==
  /\ catalog \in {CatScenario1, CatFileOrder}
  /\ caller = "merge"
  /\ embeddings_available = TRUE
  /\ question_flow_sessions = EmptyDict
  /\ answer_embeddings_store = EmptyBag
  /\ direct_state = FreshSessionState
  /\ turns = EmptyDict
  /\ merge_in \in {<<[existing |-> e, session_state |-> st, user_message |-> m]>> :
                     e \in {x \in ExistingStates(catalog) : WellFormedExisting(x)},
                     st \in {x \in InProgressStates(catalog) : WellFormedInProgress(x)},
                     m \in Msgs}
  /\ merge_out = <<>>
  /\ in_flight = EmptyBag
  /\ was_reset = {}
  /\ NoExport

\* process_message runs with the memory holding merge_in.existing
ApplyMerge ==
  /\ caller = "merge"
  /\ merge_out = <<>>
  /\ merge_out' = << process_message(catalog, merge_in[1].user_message,
                                     merge_in[1].session_state, answer_embeddings_store,
                                     merge_in[1].existing, embeddings_available) >>
  /\ UNCHANGED <<catalog, caller, embeddings_available, question_flow_sessions,
                 answer_embeddings_store, direct_state, turns, merge_in, conc_vars, export_vars>>

NextMerge == ApplyMerge

SpecMerge == InitMerge /\ [][NextMerge]_vars

\* ------------------------------------------------------------------------
\* Concurrent requests: get_response is a coroutine and main.py serves every
\* request on the same ChatbotEngine.  A call is suspended only in
\* await workflow.ainvoke; ChatbotEngine and QuestionFlowEngine hold no lock.
\* ------------------------------------------------------------------------
\* the requests the server handles at the same time
Requests == {"r1", "r2"}

Remove(dict, k) == [x \in (DOMAIN dict) \ {k} |-> dict[x]]

\* a call that reaches await workflow.ainvoke: neither the first message of
\* the wrapper nor the first interaction of the engine
reaches_ainvoke(session_state, message) ==
  /\ ~is_first_message(session_state)
  /\ ~is_first_interaction(mark_answered(session_state, message))

\* a suspended call: the deep copy of the stored session state it works on,
\* and whether reset_question_flow ran for its session since it was taken
Loaded(session_id, message, session_state) ==
  [session_id |-> session_id, message |-> message, session_state |-> session_state,
   reset |-> FALSE]

\* the calls in flight for session sid
CallsOf(sid) == {c \in BagToSet(in_flight) : c.session_id = sid}

\* a save that writes the session state under every key of the store
persisted_all(sessions, session_id, out) ==
  [k \in (DOMAIN sessions) \cup {session_id} |-> out.sessions[session_id]]

\* the session state is written back under its own key
persisted(sessions, session_id, out) == Put(sessions, session_id, out.sessions[session_id])

\* SpecConc: overlapping calls of the same session.  The embeddings model is
\* not reachable: the nodes of the workflow then work on the state of the
\* call only, and answer_embeddings_store stays empty.
InitConc ==
  /\ catalog \in {CatScenario1, CatFileOrder}
  /\ caller = "chatbot"
  /\ embeddings_available = FALSE
  /\ question_flow_sessions = EmptyDict
  /\ answer_embeddings_store = EmptyBag
  /\ direct_state = FreshSessionState
  /\ turns = EmptyDict
  /\ merge_in = <<>>
  /\ merge_out = <<>>
  /\ in_flight = EmptyBag
  /\ was_reset = {}
  /\ NoExport

\* get_response returned out to a request of session sid
ConcReturned(sid, out) ==
  /\ question_flow_sessions' = persisted(question_flow_sessions, sid, out)
  /\ answer_embeddings_store' = out.store
  /\ turns' = Put(turns, sid, Returned(out.flow_result,
                                       out.response_metadata.response, out.shown))
  /\ UNCHANGED <<catalog, caller, embeddings_available, direct_state,
                 merge_in, merge_out, was_reset, export_vars>>

\* A call that does not reach ainvoke runs without suspension
AtomicTurn(sid, message) ==
  /\ caller = "chatbot"
  /\ ~reaches_ainvoke(session_state_of(question_flow_sessions, sid), message)
  /\ ConcReturned(sid, get_response_with_question_flow(catalog, question_flow_sessions,
                         answer_embeddings_store, sid, message, embeddings_available))
  /\ UNCHANGED in_flight

\* A request loads the state of session sid, stores message as the answer of
\* the pending question in its copy and is suspended in await workflow.ainvoke
Begin(sid, message) ==
  /\ caller = "chatbot"
  /\ BagCardinality(in_flight) < Cardinality(Requests)
  /\ sid \in DOMAIN question_flow_sessions
  /\ reaches_ainvoke(question_flow_sessions[sid], message)
  /\ in_flight' = in_flight (+) SetToBag({Loaded(sid, message, question_flow_sessions[sid])})
  /\ UNCHANGED <<catalog, caller, embeddings_available, question_flow_sessions,
                 answer_embeddings_store, direct_state, turns, merge_in, merge_out,
                 was_reset, export_vars>>

\* ainvoke returned to the suspended call c: process_message returns, the
\* wrapper merges the result into its copy and saves the copy
Finished(c) ==
  /\ ConcReturned(c.session_id,
       get_response_with_question_flow(catalog,
         Put(question_flow_sessions, c.session_id, c.session_state),
         answer_embeddings_store, c.session_id, c.message, embeddings_available))
  /\ in_flight' = in_flight (-) SetToBag({c})

\* ainvoke returns to a suspended call of session sid that carries message
Finish(sid, message) ==
  \E c \in CallsOf(sid) : c.message = message /\ Finished(c)

\* a reset that calls reset_flow of the engine only
ResetConc_flow_only(sid) ==
  /\ caller = "chatbot"
  /\ question_flow_sessions' = question_flow_sessions
  /\ answer_embeddings_store' = EmptyBag
  /\ turns' = Remove(turns, sid)
  /\ in_flight' = BagOfAll(LAMBDA c : IF c.session_id = sid
                                       THEN [c EXCEPT !.reset = TRUE] ELSE c,
                           in_flight)
  /\ was_reset' = was_reset \cup {sid}
  /\ UNCHANGED <<catalog, caller, embeddings_available, direct_state, merge_in, merge_out, export_vars>>

\* reset_question_flow(session_id) while calls may be suspended
ResetConc(sid) ==
  /\ caller = "chatbot"
  /\ question_flow_sessions' = Remove(question_flow_sessions, sid)
  /\ answer_embeddings_store' = EmptyBag
  /\ turns' = Remove(turns, sid)
  /\ in_flight' = BagOfAll(LAMBDA c : IF c.session_id = sid
                                       THEN [c EXCEPT !.reset = TRUE] ELSE c,
                           in_flight)
  /\ was_reset' = was_reset \cup {sid}
  /\ UNCHANGED <<catalog, caller, embeddings_available, direct_state, merge_in, merge_out, export_vars>>

NextConc ==
  \/ \E sid \in SessionIds, message \in Msgs : AtomicTurn(sid, message)
  \/ \E sid \in SessionIds, message \in Msgs : Begin(sid, message)
  \/ \E sid \in SessionIds, message \in Msgs : Finish(sid, message)
  \/ \E sid \in SessionIds : ResetConc(sid)

SpecConc == InitConc /\ [][NextConc]_vars

\* ------------------------------------------------------------------------
\* SpecIso: two clients, each with its own session.  A client sends its next
\* request when the answer to the previous one has arrived; the requests of
\* the two clients overlap.  The embeddings model answers, so that the calls
\* of both sessions append to the one answer_embeddings_store.
\* ------------------------------------------------------------------------
IsoSessionIds == {"s", "t"}

InitIso ==
  /\ catalog = CatScenario1
  /\ caller = "chatbot"
  /\ embeddings_available = TRUE
  /\ question_flow_sessions = EmptyDict
  /\ answer_embeddings_store = EmptyBag
  /\ direct_state = FreshSessionState
  /\ turns = EmptyDict
  /\ merge_in = <<>>
  /\ merge_out = <<>>
  /\ in_flight = EmptyBag
  /\ was_reset = {}
  /\ NoExport

\* a request of a client none of whose requests is suspended
BeginAlone(sid, message) ==
  /\ CallsOf(sid) = {}
  /\ Begin(sid, message)

\* a reset by a client none of whose requests is suspended
ResetAlone(sid) ==
  /\ CallsOf(sid) = {}
  /\ Reset(sid)

NextIso ==
  \/ \E sid \in IsoSessionIds, message \in Msgs : AtomicTurn(sid, message)
  \/ \E sid \in IsoSessionIds, message \in Msgs : BeginAlone(sid, message)
  \/ \E sid \in IsoSessionIds, message \in Msgs : Finish(sid, message)
  \/ \E sid \in IsoSessionIds : ResetAlone(sid)

SpecIso == InitIso /\ [][NextIso]_vars

\* ------------------------------------------------------------------------
\* SpecReset: one call at a time, with the resets remembered in was_reset
\* ------------------------------------------------------------------------
InitReset ==
  /\ catalog \in Catalogs
  /\ caller = "chatbot"
  /\ embeddings_available \in BOOLEAN
  /\ question_flow_sessions = EmptyDict
  /\ answer_embeddings_store = EmptyBag
  /\ direct_state = FreshSessionState
  /\ turns = EmptyDict
  /\ merge_in = <<>>
  /\ merge_out = <<>>
  /\ in_flight = EmptyBag
  /\ was_reset = {}
  /\ NoExport

NextReset ==
  \/ \E sid \in SessionIds, message \in Msgs : Turn(sid, message)
  \/ \E sid \in SessionIds : ResetConc(sid)

SpecReset == InitReset /\ [][NextReset]_vars

\* ------------------------------------------------------------------------
\* MongoDBService.save_user_responses
\* ------------------------------------------------------------------------
UPPERCASE == "ABCDEFGHIJKLMNOPQRSTUVWXYZ"
LOWERCASE == "abcdefghijklmnopqrstuvwxyz"
DIGITS == "0123456789"

\* sub in s
contains(sub, s) ==
  \E i \in 1..(Len(s) - Len(sub) + 1) : SubSeq(s, i, i + Len(sub) - 1) = sub

\* str.lower() of one character
LowerChar(ch) ==
  IF contains(ch, UPPERCASE)
  THEN LET i == CHOOSE k \in 1..Len(UPPERCASE) : SubSeq(UPPERCASE, k, k) = ch
       IN SubSeq(LOWERCASE, i, i)
  ELSE ch

RECURSIVE LowerFrom(_, _)
LowerFrom(s, i) ==
  IF i > Len(s) THEN "" ELSE LowerChar(SubSeq(s, i, i)) \o LowerFrom(s, i + 1)

\* str.lower()
lower(s) == LowerFrom(s, 1)

\* str.isalnum() for ASCII text
isalnum(s) ==
  /\ Len(s) > 0
  /\ \A i \in 1..Len(s) : contains(SubSeq(s, i, i), UPPERCASE \o LOWERCASE \o DIGITS)

MIN_QUESTION_LENGTH == 20

placeholder_indicators ==
  {"placeholder", "n/a", "not applicable", "none", "null", "undefined"}

\* a key that is short whatever it looks like
looks_like_label_short_only(question_text) ==
  Len(question_text) < MIN_QUESTION_LENGTH

\* a key that looks like a label (AA_1, intro_1) and not like a question
looks_like_label(question_text) ==
  /\ Len(question_text) < MIN_QUESTION_LENGTH
  /\ contains("_", question_text) \/ isalnum(question_text)

\* answer_lower names a placeholder
names_placeholder(answer_lower) ==
  \E placeholder \in placeholder_indicators : contains(placeholder, answer_lower)

\* the answer is a placeholder
is_placeholder(answer) == names_placeholder(lower(Strip(answer)))

\* the keys of responses that pass the filters
valid_keys(responses) ==
  {question_text \in DOMAIN responses :
     /\ question_text # ""
     /\ ~looks_like_label(question_text)
     /\ responses[question_text] # ""
     /\ Strip(responses[question_text]) # ""
     /\ ~is_placeholder(responses[question_text])}

\* stripped questions to stripped answers, for the keys that passed (the
\* responses of the model have no two keys with the same strip())
stripped(responses, keys) ==
  [q \in {Strip(question_text) : question_text \in keys} |->
     Strip(responses[CHOOSE question_text \in keys : Strip(question_text) = q])]

valid_responses_of(responses) == stripped(responses, valid_keys(responses))

\* f"consultation_results.{question_text}" as update_one reads it: the field
\* names between the dots of s from position start on (i is the position read)
RECURSIVE PathFrom(_, _, _)
PathFrom(s, start, i) ==
  IF i > Len(s) THEN << SubSeq(s, start, Len(s)) >>
  ELSE IF SubSeq(s, i, i) = "."
  THEN << SubSeq(s, start, i - 1) >> \o PathFrom(s, i + 1, i + 1)
  ELSE PathFrom(s, start, i + 1)

PathOf(question_text) == PathFrom(question_text, 1, 1)

IsPrefix(p, q) == Len(p) <= Len(q) /\ SubSeq(q, 1, Len(p)) = p

\* consultation_results is a function from the paths of its leaves to their
\* values.  update_one with $set raises when a path has an empty field name,
\* when two of its paths conflict, or when a path leads through a leaf
set_raises(results, valid_responses) ==
  \/ \E q \in DOMAIN valid_responses : \E i \in 1..Len(PathOf(q)) : PathOf(q)[i] = ""
  \/ \E q1, q2 \in DOMAIN valid_responses :
        q1 # q2 /\ IsPrefix(PathOf(q1), PathOf(q2))
  \/ \E q \in DOMAIN valid_responses, p \in DOMAIN results :
        p # PathOf(q) /\ IsPrefix(p, PathOf(q))

\* consultation_results after $set of consultation_results.<question_text>
set_fields(results, valid_responses) ==
  [p \in {p \in DOMAIN results :
            \A q \in DOMAIN valid_responses : ~IsPrefix(PathOf(q), p)}
         \cup {PathOf(q) : q \in DOMAIN valid_responses} |->
     IF \E q \in DOMAIN valid_responses : PathOf(q) = p
     THEN valid_responses[CHOOSE q \in DOMAIN valid_responses : PathOf(q) = p]
     ELSE results[p]]

\* consultation_results of the document insert_one creates: the question
\* texts are the field names
inserted_fields(valid_responses) ==
  [p \in {<<q>> : q \in DOMAIN valid_responses} |-> valid_responses[p[1]]]

\* the documents after update_one / insert_one of valid_responses for user_email
updated_collection(collection, user_email, valid_responses) ==
  Put(collection, user_email,
      IF user_email \in DOMAIN collection
      THEN set_fields(collection[user_email], valid_responses)
      ELSE inserted_fields(valid_responses))

\* valid_responses is written to a database that answers (db = "ok") or
\* raises (db = "error")
save_valid_responses(collection, db, user_email, valid_responses) ==
  IF DOMAIN valid_responses = {}
  THEN [saved |-> TRUE, valid_responses |-> EmptyDict, collection |-> collection]
  ELSE IF db = "error"
          \/ (user_email \in DOMAIN collection
                /\ set_raises(collection[user_email], valid_responses))
  THEN [saved |-> FALSE, valid_responses |-> valid_responses, collection |-> collection]
  ELSE [saved |-> TRUE, valid_responses |-> valid_responses,
        collection |-> updated_collection(collection, user_email, valid_responses)]

\* save_user_responses(user_email, session_id, responses) on a database that
\* answers, raises or is not connected (db = "unavailable"): what it returns,
\* what passed its filters, and the documents afterwards
save_user_responses(collection, db, user_email, responses) ==
  IF db = "unavailable"
  THEN [saved |-> FALSE, valid_responses |-> EmptyDict, collection |-> collection]
  ELSE IF DOMAIN responses = {}
  THEN [saved |-> TRUE, valid_responses |-> EmptyDict, collection |-> collection]
  ELSE save_valid_responses(collection, db, user_email, valid_responses_of(responses))

\* ------------------------------------------------------------------------
\* SpecExport: one call of save_user_responses
\* ------------------------------------------------------------------------
Databases == {"ok", "error", "unavailable"}
UserEmail == "user@example.com"

MaxPairs == 3   \* pairs in one call of save_user_responses

\* the question texts and the answers the calls of the model are made of
ExportQuestions ==
  {"What is your age?", "label_only", "Any allergies?",
   "Do you have any known allergies?", "Any allergies, e.g. pollen?"}
ExportAnswers == {"34", "ignored", "n/a", " ", "I have none of those"}

ExportResponses ==
  UNION {[keys -> ExportAnswers] :
           keys \in {k \in SUBSET ExportQuestions : Cardinality(k) <= MaxPairs}}

InitExport ==
  /\ catalog = CatSingle
  /\ caller = "export"
  /\ embeddings_available = TRUE
  /\ question_flow_sessions = EmptyDict
  /\ answer_embeddings_store = EmptyBag
  /\ direct_state = FreshSessionState
  /\ turns = EmptyDict
  /\ merge_in = <<>>
  /\ merge_out = <<>>
  /\ in_flight = EmptyBag
  /\ was_reset = {}
  /\ temp_qa_storage = EmptyDict
  /\ responses_collection \in
       {EmptyDict,
        Put(EmptyDict, UserEmail, Put(EmptyDict, <<"Any allergies?">>, "pollen"))}
  /\ export_in \in {<<[user_email |-> UserEmail, responses |-> r]>> :
                      r \in ExportResponses}
  /\ export_out = <<>>
  /\ last_call = <<>>

\* save_user_responses returned out
SaveReturned(db, out) ==
  /\ export_out' = export_out \o << [db |-> db, before |-> responses_collection] @@ out >>
  /\ responses_collection' = out.collection
  /\ UNCHANGED <<catalog, caller, embeddings_available, question_flow_sessions,
                 answer_embeddings_store, direct_state, turns, merge_in, merge_out,
                 conc_vars, temp_qa_storage, export_in, last_call>>

\* save_user_responses is called with export_in on a database in state db
SaveUserResponses(db) ==
  /\ caller = "export"
  /\ export_out = <<>>
  /\ \E out \in {save_user_responses(responses_collection, db,
                    export_in[1].user_email, export_in[1].responses)} :
        SaveReturned(db, out)

\* the caller retries: the same call is made once more after a save
RetrySave(db) ==
  /\ caller = "export"
  /\ Len(export_out) = 1
  /\ \E out \in {save_user_responses(responses_collection, db,
                    export_in[1].user_email, export_in[1].responses)} :
        SaveReturned(db, out)

NextExport ==
  \/ \E db \in Databases : SaveUserResponses(db)
  \/ \E db \in Databases : RetrySave(db)

SpecExport == InitExport /\ [][NextExport]_vars

\* ------------------------------------------------------------------------
\* SpecFaults: calls of get_response of a logged-in or anonymous user, during
\* which the workflow may raise and the database may raise or be unavailable
\* ------------------------------------------------------------------------
MaxSaveStatus == 2   \* calls of one session that append to save_status

\* f"I encountered an error: {str(e)}" for the exception of the model
ErrorText == "I encountered an error: workflow failed"

\* what process_message returns from its except branch when ainvoke raises,
\* as the wrapper reads it with flow_result.get and its defaults
raised(cat, store, session_state) ==
  [result |-> [response |-> ErrorText,
               next_question |-> NoneVal,
               flow_complete |-> FALSE,
               answered_count |-> 0,
               total_questions |-> Len(cat.questions),
               embeddings_count |-> 0,
               current_question_id |-> NoneVal,
               error |-> TRUE],
   session_state |-> session_state,
   initial_state |-> NoCheckpoint,
   store |-> store]

\* the wrapper when ainvoke raised: flow_result has neither session_state nor
\* current_question_id, so session_state1 keeps its current question
engine_raised(cat, sessions, store, session_id, session_state1) ==
  state_merged(cat, sessions, session_id, raised(cat, store, session_state1),
               session_state1)

\* the wrapper up to the export, with a workflow that runs or raises
get_response_until_export(cat, sessions, store, session_id, message, ok, workflow_ok) ==
  IF workflow_ok
  THEN get_response_with_question_flow(cat, sessions, store, session_id, message, ok)
  ELSE engine_raised(cat, sessions, store, session_id,
                     mark_answered(session_state_of(sessions, session_id), message))

\* the question the user is answering and the answer, when there is one
current_qa_pair(cat, session_state, message) ==
  IF session_state.current_question_id # NoneVal /\ Strip(message) # ""
  THEN << [question |->
             IF session_state.current_question_id
                  \in DOMAIN session_state.current_question_text
             THEN session_state.current_question_text[session_state.current_question_id]
             ELSE IF session_state.current_question_id \in LabelsOf(cat)
             THEN QuestionOf(cat, session_state.current_question_id).question
             ELSE session_state.current_question_id,
           answer |-> Strip(message)] >>
  ELSE <<>>

\* temp_qa_storage[user_email], empty when there is none
temp_of(temp, user_email) ==
  IF user_email \in DOMAIN temp THEN temp[user_email] ELSE EmptyDict

\* the pair is stored for a user who is logged in
pair_stored(temp, user_email, pair) ==
  IF pair # <<>> /\ user_email # NoneVal
  THEN Put(temp, user_email,
           Put(temp_of(temp, user_email), pair[1].question, pair[1].answer))
  ELSE temp

\* STEP 1: the current pair, when its question text is long enough
pair_by_question(pair) ==
  IF pair # <<>> /\ Strip(pair[1].question) # "" /\ Strip(pair[1].answer) # ""
       /\ Len(Strip(pair[1].question)) >= MIN_QUESTION_LENGTH
  THEN Put(EmptyDict, Strip(pair[1].question), Strip(pair[1].answer))
  ELSE EmptyDict

\* STEP 2: the question text of a label of session_state.answers
text_of_label(cat, session_state, label) ==
  IF label \in DOMAIN session_state.current_question_text
       /\ session_state.current_question_text[label] # ""
  THEN session_state.current_question_text[label]
  ELSE IF label \in LabelsOf(cat) THEN Strip(QuestionOf(cat, label).question)
  ELSE ""

\* STEP 2: the labels whose answer is not blank and whose text is long enough
labels_to_save(cat, session_state) ==
  {label \in DOMAIN session_state.answers :
     /\ Strip(session_state.answers[label]) # ""
     /\ Len(text_of_label(cat, session_state, label)) >= MIN_QUESTION_LENGTH}

\* STEP 2: their texts to their answers (the catalogs of the model have no two
\* labels with one text)
answers_by_question(cat, session_state, labels) ==
  [question_text \in {text_of_label(cat, session_state, label) : label \in labels} |->
     Strip(session_state.answers[CHOOSE label \in labels :
              text_of_label(cat, session_state, label) = question_text])]

\* STEPS 1 and 2: the pair first, then the answers of the session
all_answers_by_question(cat, session_state, pair) ==
  DictMerge(answers_by_question(cat, session_state, labels_to_save(cat, session_state)),
            pair_by_question(pair))

\* the entry appended to session_state["save_status"] (without its timestamp)
status_entry(status, all_answers) ==
  << [status |-> status, count |-> Cardinality(DOMAIN all_answers)] >>

\* STEP 3: what save_user_responses returned (saved) is recorded
saved_to_mongodb(temp, saved, all_answers) ==
  [temp |-> temp, collection |-> saved.collection,
   appended |-> status_entry(IF saved.saved THEN "saved" ELSE "failed", all_answers)]

\* STEP 3 once temp_qa_storage holds all_answers
save_to_mongodb(temp, collection, db, user_email, all_answers) ==
  IF db = "unavailable"
  THEN [temp |-> temp, collection |-> collection,
        appended |-> status_entry("no_mongodb", all_answers)]
  ELSE saved_to_mongodb(temp,
         save_user_responses(collection, db, user_email, temp[user_email]),
         all_answers)

\* STEP 3: the export of all_answers, for a user who is logged in
export_answers(temp, collection, db, user_email, all_answers) ==
  IF DOMAIN all_answers # {} /\ user_email # NoneVal
  THEN save_to_mongodb(
         Put(temp, user_email, DictMerge(temp_of(temp, user_email), all_answers)),
         collection, db, user_email, all_answers)
  ELSE [temp |-> temp, collection |-> collection, appended |-> <<>>]

\* session_state["save_status"], empty when the key is not there
save_status_of(session_state) ==
  IF "save_status" \in DOMAIN session_state THEN session_state.save_status ELSE <<>>

\* session_state after the entry, if any, was appended
status_appended(session_state, appended) ==
  IF appended = <<>> THEN session_state
  ELSE [k \in {"save_status"} |-> save_status_of(session_state) \o appended]
         @@ session_state

\* what the response ends with: the last save status of the session
save_status_msg(save_status) ==
  IF save_status = <<>> THEN ""
  ELSE IF save_status[Len(save_status)].status = "saved"
  THEN "\n\n[OK] Question answers saved ("
          \o ToString(save_status[Len(save_status)].count) \o " Q&A pairs)"
  ELSE IF save_status[Len(save_status)].status = "failed"
  THEN "\n\n[ERROR] Question answers failed to save"
  ELSE IF save_status[Len(save_status)].status = "no_email"
  THEN "\n\n[WARN] Please log in to save your answers"
  ELSE ""

\* response_metadata["response"]: the completion message stands alone
final_response(out, session_state) ==
  IF out.flow_result.flow_complete THEN out.response_metadata.response
  ELSE out.response_metadata.response \o save_status_msg(save_status_of(session_state))

\* get_response returned: out is the call without its export, exported the
\* export of the call
FaultyReturned(sid, message, user_email, db, workflow_ok, out, exported) ==
  /\ question_flow_sessions' =
       Put(out.sessions, sid, status_appended(out.sessions[sid], exported.appended))
  /\ answer_embeddings_store' = out.store
  /\ temp_qa_storage' = exported.temp
  /\ responses_collection' = exported.collection
  /\ turns' = Put(turns, sid, Returned(out.flow_result,
                                       out.response_metadata.response, out.shown))
  /\ last_call' =
       << [session_id |-> sid, message |-> message, user_email |-> user_email,
           db |-> db, workflow_ok |-> workflow_ok,
           answered |-> session_state_of(question_flow_sessions, sid).current_question_id,
           response_text |-> out.response_metadata.response,
           response |-> final_response(out, question_flow_sessions'[sid]),
           shown |-> out.shown,
           flow_complete |-> out.flow_result.flow_complete,
           appended |-> exported.appended] >>
  /\ UNCHANGED <<catalog, caller, embeddings_available, direct_state,
                 merge_in, merge_out, conc_vars, export_in, export_out>>

\* the export of a call whose state before it was session_state0
FaultyExported(sid, message, user_email, db, workflow_ok, pair, out) ==
  \E exported \in {export_answers(pair_stored(temp_qa_storage, user_email, pair),
                                  responses_collection, db, user_email,
                                  all_answers_by_question(catalog, out.sessions[sid], pair))} :
     FaultyReturned(sid, message, user_email, db, workflow_ok, out, exported)

\* One call of ChatbotEngine.get_response(message, session_id, user_email)
\* while the database is in state db and the workflow runs or raises
FaultyTurn(sid, message, user_email, db, workflow_ok) ==
  /\ caller = "faults"
  /\ workflow_ok \/ reaches_ainvoke(session_state_of(question_flow_sessions, sid), message)
  /\ Len(save_status_of(session_state_of(question_flow_sessions, sid))) < MaxSaveStatus
  /\ \E out \in {get_response_until_export(catalog, question_flow_sessions,
                     answer_embeddings_store, sid, message, embeddings_available,
                     workflow_ok)} :
        FaultyExported(sid, message, user_email, db, workflow_ok,
          current_qa_pair(catalog, session_state_of(question_flow_sessions, sid), message),
          out)

InitFaults ==
  /\ catalog = CatScenario1
  /\ caller = "faults"
  /\ embeddings_available = TRUE
  /\ question_flow_sessions = EmptyDict
  /\ answer_embeddings_store = EmptyBag
  /\ direct_state = FreshSessionState
  /\ turns = EmptyDict
  /\ merge_in = <<>>
  /\ merge_out = <<>>
  /\ in_flight = EmptyBag
  /\ was_reset = {}
  /\ NoExport

NextFaults ==
  \E sid \in SessionIds, message \in Msgs, user_email \in {NoneVal, UserEmail},
     db \in Databases, workflow_ok \in BOOLEAN :
       FaultyTurn(sid, message, user_email, db, workflow_ok)

SpecFaults == InitFaults /\ [][NextFaults]_vars

\* ------------------------------------------------------------------------
\* SpecDuplicate: STEPS 1 and 2 of the export on a catalog with two labels of
\* one question text, with session_state["answers"] in the order its keys
\* were written (the order a Python dict iterates in)
\* ------------------------------------------------------------------------
RECURSIVE answers_in_order(_, _, _, _, _)
\* STEP 2: for label, answer in all_answers_by_label.items(), from the i-th
\* label on; a question text that is in the dict already is skipped
answers_in_order(cat, session_state, order, i, all_answers) ==
  IF i > Len(order) THEN all_answers
  ELSE LET label == order[i]
           answer == Strip(session_state.answers[label])
           question_text == text_of_label(cat, session_state, label)
       IN answers_in_order(cat, session_state, order, i + 1,
            IF /\ answer # ""
               /\ Len(question_text) >= MIN_QUESTION_LENGTH
               /\ question_text \notin DOMAIN all_answers
            THEN Put(all_answers, question_text, answer)
            ELSE all_answers)

\* STEPS 1 and 2: the pair first, then the answers of the session in order
all_answers_in_order(cat, session_state, order, pair) ==
  answers_in_order(cat, session_state, order, 1, pair_by_question(pair))

\* the sequences of at most MAX_QUESTIONS different labels: the orders in
\* which a session can have written its answers
WriteOrders(cat) ==
  {order \in UNION {[1..n -> LabelsOf(cat)] : n \in 1..MAX_QUESTIONS} :
     \A i, j \in 1..Len(order) : i # j => order[i] # order[j]}

\* a stored session state whose answers were written in order; its current
\* question, if any, is the label written last
SessionsWritten(cat, order) ==
  {[FreshSessionState EXCEPT
      !.answers = ans,
      !.answered_questions = DOMAIN ans,
      !.asked_questions = DOMAIN ans,
      !.current_question_id = cur] :
      ans \in [{order[i] : i \in 1..Len(order)} -> Msgs \cup {" "}],
      cur \in {NoneVal, order[Len(order)]}}

InitDuplicate ==
  /\ catalog = CatDuplicate
  /\ caller = "duplicates"
  /\ embeddings_available = TRUE
  /\ question_flow_sessions = EmptyDict
  /\ answer_embeddings_store = EmptyBag
  /\ direct_state = FreshSessionState
  /\ turns = EmptyDict
  /\ merge_in = <<>>
  /\ merge_out = <<>>
  /\ in_flight = EmptyBag
  /\ was_reset = {}
  /\ temp_qa_storage = EmptyDict
  /\ responses_collection = EmptyDict
  /\ export_in \in UNION {{<<[order |-> order, session_state |-> st]>> :
                              st \in SessionsWritten(catalog, order)} :
                            order \in WriteOrders(catalog)}
  /\ export_out = <<>>
  /\ last_call = <<>>

\* the export of a turn is built: the turn has just written the answer of
\* the current question of export_in (then the pair is that question and
\* that answer), or it found no current question and has no pair
BuildExport ==
  /\ caller = "duplicates"
  /\ export_out = <<>>
  /\ LET st == export_in[1].session_state
         pair == current_qa_pair(catalog, st, IF st.current_question_id # NoneVal
                                               THEN st.answers[st.current_question_id]
                                               ELSE "")
     IN export_out' = << [pair |-> pair,
                          all_answers |-> all_answers_in_order(catalog, st,
                                             export_in[1].order, pair)] >>
  /\ UNCHANGED <<catalog, caller, embeddings_available, question_flow_sessions,
                 answer_embeddings_store, direct_state, turns, merge_in, merge_out,
                 conc_vars, temp_qa_storage, responses_collection, export_in, last_call>>

NextDuplicate == BuildExport

SpecDuplicate == InitDuplicate /\ [][NextDuplicate]_vars

\* ------------------------------------------------------------------------
\* SpecSaves: two calls of save_user_responses for one user email whose
\* database operations interleave.  Here responses_collection is the list of
\* the documents of the collection (no index of the collection is unique, so
\* several documents can have one email), export_in the responses of the two
\* calls and last_call the position of each call
\* ------------------------------------------------------------------------
SaveCalls == {1, 2}
SaveQuestions == {"What is your age?", "Do you have any known allergies?"}
SaveAnswers == {"34", "I have none of those"}
SaveResponses ==
  UNION {[keys -> SaveAnswers] : keys \in (SUBSET SaveQuestions) \ {{}}}

\* the positions of the documents of user_email
documents_of(documents, user_email) ==
  {i \in 1..Len(documents) : documents[i].email = user_email}

\* find_one({"email": user_email}): the position of the first document of
\* user_email, 0 for None
find_one(documents, user_email) ==
  IF documents_of(documents, user_email) = {} THEN 0
  ELSE CHOOSE i \in documents_of(documents, user_email) :
         \A j \in documents_of(documents, user_email) : i <= j

\* the document insert_one creates
new_document(user_email, valid_responses) ==
  [email |-> user_email, consultation_results |-> inserted_fields(valid_responses)]

InitSaves ==
  /\ catalog = CatSingle
  /\ caller = "saves"
  /\ embeddings_available = TRUE
  /\ question_flow_sessions = EmptyDict
  /\ answer_embeddings_store = EmptyBag
  /\ direct_state = FreshSessionState
  /\ turns = EmptyDict
  /\ merge_in = <<>>
  /\ merge_out = <<>>
  /\ in_flight = EmptyBag
  /\ was_reset = {}
  /\ temp_qa_storage = EmptyDict
  /\ responses_collection \in
       {<<>>, << new_document(UserEmail, Put(EmptyDict, "Any allergies?", "pollen")) >>}
  /\ export_in \in [SaveCalls -> SaveResponses]
  /\ export_out = <<>>
  /\ last_call = [c \in SaveCalls |-> "find_one"]

SavesUnchanged ==
  UNCHANGED <<catalog, caller, embeddings_available, question_flow_sessions,
              answer_embeddings_store, direct_state, turns, merge_in, merge_out,
              conc_vars, temp_qa_storage, export_in, export_out>>

\* existing_user = self.responses_collection.find_one({"email": user_email})
FindOne(c) ==
  /\ caller = "saves"
  /\ last_call[c] = "find_one"
  /\ last_call' = [last_call EXCEPT ![c] =
                     IF find_one(responses_collection, UserEmail) # 0
                     THEN "update_one" ELSE "insert_one"]
  /\ UNCHANGED responses_collection
  /\ SavesUnchanged

\* update_one({"email": user_email}, {"$set": update_dict}): the first
\* document of the email is updated in one step, or the operation raises
UpdateOne(c) ==
  /\ caller = "saves"
  /\ last_call[c] = "update_one"
  /\ LET i == find_one(responses_collection, UserEmail)
         valid_responses == valid_responses_of(export_in[c])
     IN IF set_raises(responses_collection[i].consultation_results, valid_responses)
        THEN /\ last_call' = [last_call EXCEPT ![c] = "False"]
             /\ UNCHANGED responses_collection
        ELSE /\ last_call' = [last_call EXCEPT ![c] = "True"]
             /\ responses_collection' =
                  [responses_collection EXCEPT ![i].consultation_results =
                     set_fields(@, valid_responses)]
  /\ SavesUnchanged

\* insert_one({"email": user_email, "consultation_results": valid_responses, ...})
InsertOne(c) ==
  /\ caller = "saves"
  /\ last_call[c] = "insert_one"
  /\ last_call' = [last_call EXCEPT ![c] = "True"]
  /\ responses_collection' =
       Append(responses_collection,
              new_document(UserEmail, valid_responses_of(export_in[c])))
  /\ SavesUnchanged

NextSaves ==
  \/ \E c \in SaveCalls : FindOne(c)
  \/ \E c \in SaveCalls : UpdateOne(c)
  \/ \E c \in SaveCalls : InsertOne(c)

SpecSaves == InitSaves /\ [][NextSaves]_vars

\* ------------------------------------------------------------------------
\* SpecLive: the user keeps sending inputs and nobody resets the session
\* ------------------------------------------------------------------------
NextLive ==
  \/ \E sid \in SessionIds, message \in Msgs : Turn(sid, message)
  \/ \E message \in Msgs : DirectTurn(message)

\* the flows of the model: the sessions of the chatbot and the flow of the script
FlowKeys == SessionIds \cup {Direct}

\* an input to flow k
InputTo(k) ==
  IF k = Direct
  THEN \E message \in Msgs : DirectTurn(message)
  ELSE \E message \in Msgs : Turn(k, message)

\* no input to flow k changes the state: ENABLED <<InputTo(k)>>_vars is false
Quiescent(k) ==
  IF k = Direct
  THEN caller = "script" =>
         \A message \in Msgs :
           \A out \in {process_message(catalog, message, direct_state,
                                      answer_embeddings_store, NoCheckpoint,
                                      embeddings_available)} :
              /\ out.session_state = direct_state
              /\ out.store = answer_embeddings_store
              /\ Put(turns, Direct, Returned(out.result, out.result.response,
                                            out.result.current_question_id)) = turns
  ELSE caller = "chatbot" =>
         \A message \in Msgs :
           \A out \in {get_response_with_question_flow(catalog, question_flow_sessions,
                           answer_embeddings_store, k, message, embeddings_available)} :
              /\ out.sessions = question_flow_sessions
              /\ out.store = answer_embeddings_store
              /\ Put(turns, k, Returned(out.flow_result,
                                       out.response_metadata.response, out.shown)) = turns

\* weak fairness of the inputs to every flow, WF_vars(InputTo(k)), with its
\* ENABLED written out as ~Quiescent(k): an input to the flow that changes
\* the state is taken again and again unless no input to it changes the
\* state again and again
InputsKeepComing ==
  \A k \in FlowKeys : []<>Quiescent(k) \/ []<><<InputTo(k)>>_vars

SpecLive == Init /\ [][NextLive]_vars /\ InputsKeepComing

\* ------------------------------------------------------------------------
\* SpecName: the chat calls of Spec, also on a catalog with a name question
\* ------------------------------------------------------------------------
InitName ==
  /\ catalog \in Catalogs \cup {CatName}
  /\ caller = "chatbot"
  /\ embeddings_available \in BOOLEAN
  /\ question_flow_sessions = EmptyDict
  /\ answer_embeddings_store = EmptyBag
  /\ direct_state = FreshSessionState
  /\ turns = EmptyDict
  /\ merge_in = <<>>
  /\ merge_out = <<>>
  /\ in_flight = EmptyBag
  /\ was_reset = {}
  /\ NoExport

NextName ==
  \/ \E sid \in SessionIds, message \in Msgs : Turn(sid, message)
  \/ \E sid \in SessionIds : Reset(sid)

SpecName == InitName /\ [][NextName]_vars

\* ------------------------------------------------------------------------
\* SpecFlatten: QuestionFlowEngine.__init__ on a questions.json of the old
\* structure, a flat list of questions with id, category, question,
\* dependencies and priority
\* ------------------------------------------------------------------------
MaxFlat == 6   \* questions in the flat list

Letters == "ABCDEFGHIJKLMNOPQRSTUVWXYZ"

\* chr(ord(letter) + 1), back to "A" after "Z"
NextLetter(letter) ==
  LET i == CHOOSE j \in 1..Len(Letters) : SubSeq(Letters, j, j) = letter
  IN IF i = Len(Letters) THEN "A" ELSE SubSeq(Letters, i + 1, i + 1)

\* category_to_label.get(category, "Z")
category_to_label(category) ==
  CASE category = "introduction" -> "A"
    [] category = "demographics" -> "B"
    [] OTHER -> "Z"

\* category_counts[category] when the category is seen first
FirstCount == [count |-> 0, subcat |-> "AA"]

\* the label of the next question of a category whose counts are counts
question_label(counts) == counts.subcat \o "_" \o ToString(counts.count + 1)

\* category_counts[category] after that question: every fifth question moves
\* the category to its next subcategory
counted(counts) ==
  [count |-> counts.count + 1,
   subcat |-> IF (counts.count + 1) % 5 = 0
              THEN SubSeq(counts.subcat, 1, 1) \o NextLetter(SubSeq(counts.subcat, 2, 2))
              ELSE counts.subcat]

RECURSIVE flatten_from(_, _, _, _, _)
\* the loop of _flatten_questions over questions_list from its i-th question
\* on: labels[j] is the label the j-th question received
flatten_from(questions_list, i, category_counts, questions_map, labels) ==
  IF i > Len(questions_list)
  THEN [questions |-> questions_map, labels |-> labels]
  ELSE LET q == questions_list[i]
           counts == IF q.category \in DOMAIN category_counts
                     THEN category_counts[q.category] ELSE FirstCount
       IN flatten_from(questions_list, i + 1,
            Put(category_counts, q.category, counted(counts)),
            Put(questions_map, question_label(counts),
                [question |-> q.question,
                 category |-> category_to_label(q.category),
                 subcategory |-> counts.subcat,
                 label |-> question_label(counts),
                 old_id |-> q.id]),
            Append(labels, question_label(counts)))

flatten_questions(questions_list) ==
  flatten_from(questions_list, 1, EmptyDict, EmptyDict, <<>>)

\* the labels of questions whose old_id is old_id
labels_of_old_id(questions, old_id) ==
  {label \in DOMAIN questions : questions[label].old_id = old_id}

\* __init__, old structure: the questions of the list whose old id is the
\* old_id of an entry, by the label of that entry
listed(questions_list, questions) ==
  {i \in 1..Len(questions_list) : labels_of_old_id(questions, questions_list[i].id) # {}}

new_label_of(questions, old_id) == CHOOSE label \in labels_of_old_id(questions, old_id) : TRUE

\* self.dependencies: the dependencies of each such question that are old
\* ids of entries, as labels
dependencies_of(questions_list, questions) ==
  [new_label \in {new_label_of(questions, questions_list[i].id) :
                    i \in listed(questions_list, questions)} |->
     LET q == questions_list[CHOOSE i \in listed(questions_list, questions) :
                               new_label_of(questions, questions_list[i].id) = new_label]
     IN {new_label_of(questions, old_dep) :
           old_dep \in {d \in q.dependencies : labels_of_old_id(questions, d) # {}}}]

\* the flat lists of the model: the i-th question has the id qi, a text, a category, and depends on nothing or on the question before it
FlatCategories == {"introduction", "demographics"}
FlatId(i) == "q" \o ToString(i)
FlatTexts == <<"Are you ready to begin the consultation?", "How old are you in years?",
               "What is the main reason for your visit?", "When did the symptoms start?",
               "Do you take any medication daily?", "Is there anything else to add?">>
FlatLists ==
  UNION {{[i \in 1..n |->
             [id |-> FlatId(i), category |-> cats[i],
              question |-> FlatTexts[((i - 1) % Len(FlatTexts)) + 1],
              dependencies |-> IF chained /\ i > 1 THEN {FlatId(i - 1)} ELSE {},
              priority |-> 1]] :
           cats \in [1..n -> FlatCategories], chained \in BOOLEAN} :
         n \in 1..MaxFlat}

InitFlatten ==
  /\ catalog = CatSingle
  /\ caller = "loader"
  /\ embeddings_available = TRUE
  /\ question_flow_sessions = EmptyDict
  /\ answer_embeddings_store = EmptyBag
  /\ direct_state = FreshSessionState
  /\ turns = EmptyDict
  /\ merge_in = <<>>
  /\ merge_out = <<>>
  /\ in_flight = EmptyBag
  /\ was_reset = {}
  /\ temp_qa_storage = EmptyDict
  /\ responses_collection = EmptyDict
  /\ export_in \in {<<questions_list>> : questions_list \in FlatLists}
  /\ export_out = <<>>
  /\ last_call = <<>>

\* QuestionFlowEngine(questions_file) loads the flat list export_in[1]
LoadFlatList ==
  /\ caller = "loader"
  /\ export_out = <<>>
  /\ \E flat \in {flatten_questions(export_in[1])} :
        export_out' = << [questions |-> flat.questions,
                          labels |-> flat.labels,
                          dependencies |-> dependencies_of(export_in[1], flat.questions)] >>
  /\ UNCHANGED <<catalog, caller, embeddings_available, question_flow_sessions,
                 answer_embeddings_store, direct_state, turns, merge_in, merge_out,
                 conc_vars, temp_qa_storage, responses_collection, export_in, last_call>>

NextFlatten == LoadFlatList

SpecFlatten == InitFlatten /\ [][NextFlatten]_vars

\* ------------------------------------------------------------------------
\* SpecTransport: the chat endpoint, the reset endpoint and the status
\* endpoint GET /api/chat/question-flow/status
\* ------------------------------------------------------------------------
\* ChatbotEngine.get_question_flow_status(session_id) as main.py returns it
get_question_flow_status(sessions, store, session_id) ==
  IF session_id \notin DOMAIN sessions
  THEN [active |-> FALSE, answered_questions |-> {}, answers |-> EmptyDict,
        total_embeddings |-> 0, embeddings |-> EmptyBag]
  ELSE [active |-> TRUE,
        answered_questions |-> sessions[session_id].answered_questions,
        answers |-> sessions[session_id].answers,
        total_embeddings |-> BagCardinality(store),
        embeddings |-> store]

\* the stored objects the dict get_question_flow_status returns holds
\* themselves, by reference: list(...) builds a new list and len(...) a number,
\* session_state.get("answers", {}) is the dict of the stored session state
\* and get_embeddings_store() the list of the engine
status_shares(sessions, session_id) ==
  IF session_id \notin DOMAIN sessions THEN {}
  ELSE {<<"question_flow_sessions", session_id, "answers">>,
        <<"answer_embeddings_store">>}

\* GET /api/chat/question-flow/status?session_id=sid
QueryStatus(sid) ==
  /\ caller = "chatbot"
  /\ last_call' = << [session_id |-> sid,
                      status |-> get_question_flow_status(question_flow_sessions,
                                    answer_embeddings_store, sid),
                      shares |-> status_shares(question_flow_sessions, sid)] >>
  /\ UNCHANGED <<catalog, caller, embeddings_available, question_flow_sessions,
                 answer_embeddings_store, direct_state, turns, merge_in, merge_out,
                 conc_vars, temp_qa_storage, responses_collection, export_in,
                 export_out>>

NextTransport ==
  \/ \E sid \in SessionIds, message \in Msgs : Turn(sid, message)
  \/ \E sid \in SessionIds : ResetConc(sid)
  \/ \E sid \in SessionIds : QueryStatus(sid)

SpecTransport == InitReset /\ [][NextTransport]_vars

\* ------------------------------------------------------------------------
\* SpecResolve: calls of _get_available_questions with any set of labels
\* ------------------------------------------------------------------------
\* the labels the sets of answered labels are drawn from: those of all catalogs
AllLabels == DOMAIN LabelSplit

\* self._get_available_questions(answered_questions) is called and returns
GetAvailableQuestions(answered_questions) ==
  /\ caller = "chatbot"
  /\ last_call = <<>>
  /\ last_call' = << [answered_questions |-> answered_questions,
                      available |-> get_available_questions(catalog, answered_questions)] >>
  /\ UNCHANGED <<catalog, caller, embeddings_available, question_flow_sessions,
                 answer_embeddings_store, direct_state, turns, merge_in, merge_out,
                 conc_vars, temp_qa_storage, responses_collection, export_in,
                 export_out>>

NextResolve ==
  \E answered_questions \in SUBSET AllLabels : GetAvailableQuestions(answered_questions)

SpecResolve == InitReset /\ [][NextResolve]_vars

\* ------------------------------------------------------------------------
\* Notions of the specification used by the properties
\* ------------------------------------------------------------------------
\* the state of session k: a session of ChatbotEngine or the script's state
StateOf(k) == IF k = Direct THEN direct_state ELSE question_flow_sessions[k]

\* section 4.1: the labels that are not answered and whose dependencies are
EligibleLabels(cat, answered) ==
  {l \in LabelsOf(cat) : l \notin answered /\ DepsOf(cat, l) \subseteq answered}

\* section 4.2: the first of the eligible questions in the ordering (ties go to
\* the earlier catalog entry)
FirstEligible(cat, answered) ==
  LET eligible == SelectSeq([i \in 1..Len(cat.questions) |->
                               [id |-> cat.questions[i].label,
                                question |-> cat.questions[i].question,
                                category |-> cat.questions[i].category]],
                            LAMBDA q : q.id \in EligibleLabels(cat, answered))
  IN sort_questions_by_order(cat, eligible)[1]

\* the labels a call put before the user or made the current question
EmittedBy(k) ==
  {turns[k].current_question_id, turns[k].shown, StateOf(k).current_question_id}
     \ {NoneVal}

\* ------------------------------------------------------------------------
\* Properties
\* ------------------------------------------------------------------------

\* C1 (No repeat): in every step, the labels session k had answered before the
\* step are still answered after it, and none of them is the question the
\* session's last call selected, showed or stored as current; a reset removes
\* the session and ends the obligation.
C1_NoRepeat ==
  [][\A k \in DOMAIN turns' :
       LET before == IF k \in DOMAIN turns THEN StateOf(k).answered_questions ELSE {}
       IN /\ before \subseteq StateOf(k)'.answered_questions
          /\ turns'[k].current_question_id \notin before
          /\ turns'[k].shown \notin before
          /\ StateOf(k)'.current_question_id \notin before]_vars

\* C1 witness: a question was emitted to a session that has answered labels
C1_Witness ==
  \E k \in DOMAIN turns :
    StateOf(k).answered_questions # {} /\ turns[k].current_question_id # NoneVal

\* C2 (Dependency respect): every dependency of a label a call emitted is in
\* the answered set of that session.
C2_DependencyRespect ==
  \A k \in DOMAIN turns :
    \A x \in EmittedBy(k) : DepsOf(catalog, x) \subseteq StateOf(k).answered_questions

\* C2 witness: a label that has dependencies was emitted
C2_Witness ==
  \E k \in DOMAIN turns :
    turns[k].current_question_id # NoneVal
      /\ DepsOf(catalog, turns[k].current_question_id) # {}

\* C3 (Completion, as claimed): after every call, a session has reported
\* flow_complete exactly when no label is eligible for its answered set, and a
\* session that reported flow_complete reports it after every later step until
\* reset.
C3_Completion ==
  /\ [](\A k \in DOMAIN turns :
          EligibleLabels(catalog, StateOf(k).answered_questions) = {}
             <=> turns[k].flow_complete)
  /\ [][\A k \in (DOMAIN turns) \cap (DOMAIN turns') :
          turns[k].flow_complete => turns'[k].flow_complete]_vars

\* C3: a session that reported flow_complete while a label is eligible, or
\* did not report it while none is
C3_Witness ==
  \E k \in DOMAIN turns :
    (EligibleLabels(catalog, StateOf(k).answered_questions) = {}) # turns[k].flow_complete

\* C4 (Scenario 1, as claimed): on the catalog of scenario 1 a session that
\* has answered nothing is asked A_1, one that answered A_1 is asked A_2, one
\* that answered A_1 and A_2 is asked B_1, and only a session that answered
\* all three is complete.
C4_Scenario1 ==
  catalog = CatScenario1 =>
    \A k \in DOMAIN turns :
      LET answered == StateOf(k).answered_questions
          t == turns[k]
      IN /\ answered = {} => t.current_question_id = "A_1" /\ ~t.flow_complete
         /\ answered = {"A_1"} => t.current_question_id = "A_2" /\ ~t.flow_complete
         /\ answered = {"A_1", "A_2"} => t.current_question_id = "B_1" /\ ~t.flow_complete
         /\ t.flow_complete => answered = {"A_1", "A_2", "B_1"}

\* C4: on the catalog of scenario 1 a session that answered A_1 and A_2 and
\* was told the flow is complete, with B_1 never asked
C4_Witness ==
  /\ catalog = CatScenario1
  /\ \E k \in DOMAIN turns :
       /\ StateOf(k).answered_questions = {"A_1", "A_2"}
       /\ turns[k].flow_complete
       /\ "B_1" \notin StateOf(k).asked_questions

\* the session states that differ from st in what was answered and embedded,
\* not in which labels are answered or pending
AnswerVariants(st) ==
  {[st EXCEPT !.answers = ans, !.question_embeddings = e] :
     ans \in [DOMAIN st.answers -> Msgs], e \in {{}, st.answered_questions}}

\* what one call selected: the label it returned, the label whose text it
\* showed, and the label it stored as current
Selection(returned, shown, st) ==
  <<returned.current_question_id, shown, st.current_question_id>>

C6_FirstQuestion ==
  \A k \in DOMAIN turns :
    (StateOf(k).answered_questions = {} /\ EligibleLabels(catalog, {}) # {})
      => LET first == FirstEligible(catalog, {})
         IN /\ turns[k].response # ""
            /\ turns[k].response = first.question
            /\ turns[k].current_question_id = first.id
            /\ StateOf(k).current_question_id = first.id
            /\ first.id \in StateOf(k).asked_questions
            /\ ~turns[k].flow_complete
            /\ turns[k].answered_count = 0

\* C6: a first call that asked B_1 where A_1 is the first eligible question of
\* the ordering
C6_Witness ==
  /\ catalog = CatFileOrder
  /\ FirstEligible(catalog, {}).id = "A_1"
  /\ \E k \in DOMAIN turns :
       StateOf(k).answered_questions = {} /\ turns[k].current_question_id = "B_1"

\* what C7 says of one call with input message for a session in state st
\* with a pending question, which leaves the session in state st2
AnswerRecorded(st, message, st2, returned) ==
  LET L == st.current_question_id
  IN /\ L \in DOMAIN st2.answers
     /\ st2.answers[L] = message
     /\ L \in st2.answered_questions
     /\ DOMAIN st2.answers = (DOMAIN st.answers) \cup {L}
     /\ \A l \in (DOMAIN st.answers) \ {L} : st2.answers[l] = st.answers[l]
     /\ \/ st2.current_question_id \notin {NoneVal, L}
        \/ st2.current_question_id = NoneVal /\ returned.flow_complete

\* C7 (Answer recording): a call with input m for a session whose current
\* question is L stores m as the answer of L, marks L answered, leaves the
\* other answers as they were, and leaves a new current question or none with
\* flow_complete.
C7_AnswerRecording ==
  [][/\ \A sid \in SessionIds, m \in Msgs :
          (/\ Turn(sid, m)
           /\ sid \in DOMAIN question_flow_sessions
           /\ question_flow_sessions[sid].current_question_id # NoneVal)
            => AnswerRecorded(question_flow_sessions[sid], m,
                              question_flow_sessions'[sid], turns'[sid])
     /\ \A m \in Msgs :
          (DirectTurn(m) /\ direct_state.current_question_id # NoneVal)
            => AnswerRecorded(direct_state, m, direct_state', turns'[Direct])]_vars

\* C7 witness: a session with two answers, the second recorded while the first
\* was kept, and a different input for each
C7_Witness ==
  \E k \in DOMAIN turns :
    \E l1, l2 \in DOMAIN StateOf(k).answers :
      l1 # l2 /\ StateOf(k).answers[l1] # StateOf(k).answers[l2]

\* the part of a session state C8 speaks of
SessionFields(st) ==
  <<st.asked_questions, st.answered_questions, st.answers, st.current_question_id>>

\* C8 (Completed is inert): a step of a session that had reported
\* flow_complete leaves its asked and answered sets, its answers and its
\* (empty) current question as they were, selects no question and reports
\* flow_complete again.
C8_CompletedInert ==
  [][\A k \in (DOMAIN turns) \cap (DOMAIN turns') :
       turns[k].flow_complete
         => /\ SessionFields(StateOf(k)') = SessionFields(StateOf(k))
            /\ turns'[k].flow_complete
            /\ turns'[k].current_question_id = NoneVal
            /\ turns'[k].shown = NoneVal]_vars

\* C8 witness: a complete session whose last input is not the answer of any
\* label, so it arrived after completion
C8_Witness ==
  \E k \in DOMAIN turns :
    /\ turns[k].flow_complete
    /\ Len(StateOf(k).messages) = 1
    /\ \A l \in DOMAIN StateOf(k).answers :
         StateOf(k).answers[l] # StateOf(k).messages[1].content

\* C9 (No eligible question, as claimed): the first call of a session for
\* which no question is eligible reports flow_complete.
C9_NoEligibleCompletes ==
  \A k \in DOMAIN turns :
    (StateOf(k).answered_questions = {} /\ EligibleLabels(catalog, {}) = {})
      => turns[k].flow_complete

\* C9: a first call on a catalog without an eligible question that returned
\* no question and did not report flow_complete
C9_Witness ==
  /\ EligibleLabels(catalog, {}) = {}
  /\ \E k \in DOMAIN turns :
       /\ StateOf(k).answered_questions = {}
       /\ turns[k].current_question_id = NoneVal
       /\ ~turns[k].flow_complete

\* the answered set and the answer keys of the call in progress, once it has
\* recorded the input for its current question
InProgressAnswered(st) ==
  st.answered_questions \cup ({st.current_question_id} \ {NoneVal})
InProgressAnswerKeys(st) ==
  (DOMAIN st.answers) \cup ({st.current_question_id} \ {NoneVal})

LabelsKept(a, b) ==
  \A l \in a.answered_questions \cap DOMAIN a.answers :
     l \in b.answered_questions \cap DOMAIN b.answers

C11_NoLostUpdate ==
  [][\A sid \in SessionIds :
       (/\ sid \notin was_reset'
        /\ sid \in DOMAIN question_flow_sessions
        /\ sid \in DOMAIN question_flow_sessions')
       => LabelsKept(question_flow_sessions[sid], question_flow_sessions'[sid])]_vars

\* a call of a session never reset is suspended with a copy that lacks a label
\* the store has as answered by now
C11_Witness ==
  \E c \in BagToSet(in_flight) :
     /\ c.session_id \notin was_reset
     /\ c.session_id \in DOMAIN question_flow_sessions
     /\ \E l \in question_flow_sessions[c.session_id].answered_questions :
          /\ l \in DOMAIN question_flow_sessions[c.session_id].answers
          /\ l \notin mark_answered(c.session_state, c.message).answered_questions

\* ------------------------------------------------------------------------
\* C12  Per-session mutual exclusion: no two calls of the same session are
\* between the load of the session state and its save at the same time.
\* ------------------------------------------------------------------------
\* the number of calls of session sid between load and save
InFlightCount(sid) ==
  BagCardinality([c \in CallsOf(sid) |-> CopiesIn(c, in_flight)])

C12_MutualExclusion ==
  \A sid \in SessionIds : InFlightCount(sid) <= 1

\* a call is between load and save, and the session takes another input
C12_Witness ==
  \E sid \in SessionIds :
     /\ InFlightCount(sid) = 1
     /\ \E message \in Msgs : ENABLED Begin(sid, message)

\* the stored state of session sid is the same before and after the step
StoredUnchanged(sid) ==
  /\ (sid \in DOMAIN question_flow_sessions) <=> (sid \in DOMAIN question_flow_sessions')
  /\ sid \in DOMAIN question_flow_sessions
       => question_flow_sessions'[sid] = question_flow_sessions[sid]

\* ------------------------------------------------------------------------
\* C13  Session isolation: every step touches one session only: the stored
\* state, the suspended call and the last answer of every other session stay
\* as they are; what a call of a session stores and returns is what it stores
\* and returns when that session is the only one of the server; and a request
\* slot is free for a client that has no call suspended, whatever the other
\* client does.
\* ------------------------------------------------------------------------
\* session t is not touched by the step
Untouched(t) ==
  /\ StoredUnchanged(t)
  /\ CallsOf(t)' = CallsOf(t)
  /\ (t \in DOMAIN turns) <=> (t \in DOMAIN turns')
  /\ t \in DOMAIN turns => turns'[t] = turns[t]

\* what get_response stores and returns for session t on a server that has
\* no other session and an empty embeddings store
Alone(t, sessions_of_t, message) ==
  get_response_with_question_flow(catalog, sessions_of_t, EmptyBag, t, message,
                                  embeddings_available)

\* the step stored and returned for session t what out holds
SameAs(t, out) ==
  /\ SessionFields(question_flow_sessions'[t]) = SessionFields(out.sessions[t])
  /\ turns'[t] = Returned(out.flow_result, out.response_metadata.response, out.shown)

\* the stored state of session t, as the only content of a store
OnlyOf(t) ==
  IF t \in DOMAIN question_flow_sessions
  THEN Put(EmptyDict, t, question_flow_sessions[t]) ELSE EmptyDict

\* a step in which a call of session t returned: a call without suspension
\* when in_flight is as it was, else the suspended call that left in_flight
AsIfAlone(t) ==
  (~Untouched(t) /\ t \in DOMAIN question_flow_sessions') =>
     /\ in_flight' = in_flight
          => \A message \in Msgs :
                AtomicTurn(t, message) => SameAs(t, Alone(t, OnlyOf(t), message))
     /\ \A c \in CallsOf(t) :
          in_flight' = in_flight (-) SetToBag({c})
             => SameAs(t, Alone(t, Put(EmptyDict, t, c.session_state), c.message))

\* the calls suspended for other sessions leave a request slot for session t
NeverBlocked(t) ==
  CallsOf(t) = {} => BagCardinality(in_flight) < Cardinality(Requests)

C13_SessionIsolation ==
  [][/\ \E s \in IsoSessionIds : \A t \in IsoSessionIds \ {s} : Untouched(t)
     /\ \A t \in IsoSessionIds : AsIfAlone(t) /\ NeverBlocked(t)]_vars

\* the calls of both sessions are suspended at the same time, and both
\* sessions have a stored answer
C13_Witness ==
  \A t \in IsoSessionIds :
     /\ CallsOf(t) # {}
     /\ t \in DOMAIN question_flow_sessions
     /\ question_flow_sessions[t].answered_questions # {}

\* ------------------------------------------------------------------------
\* C14  Reset beats a call in flight: when a call that was loaded before a
\* reset of its session returns after the reset, the stored state of the
\* session is what it was before the call returned; nothing of the call is
\* written.
\* ------------------------------------------------------------------------
C14_ResetBeatsInFlight ==
  [][\A c \in BagToSet(in_flight) :
       (c.reset /\ Finished(c)) => StoredUnchanged(c.session_id)]_vars

\* a session was reset while a call of it was suspended, and is fresh
C14_Witness ==
  \E c \in BagToSet(in_flight) :
     c.reset /\ c.session_id \notin DOMAIN question_flow_sessions

\* ------------------------------------------------------------------------
\* C15  Reset restarts the sequence: a reset of a session with no call in
\* flight leaves nothing stored for it, whatever it had stored; and as long as
\* nothing is stored for a session that was reset, the next input records no
\* answer, leaves the answered labels and the answers empty, and is answered
\* with what a brand-new session on a brand-new server is answered with.
\* ------------------------------------------------------------------------
\* out is what a first input gets: nothing recorded, and the response, the
\* question and the completion flag of brand_new
TreatedAsFirst(sid, out, brand_new) ==
  /\ out.sessions[sid].answered_questions = {}
  /\ out.sessions[sid].answers = EmptyDict
  /\ SessionFields(out.sessions[sid]) = SessionFields(brand_new.sessions[sid])
  /\ Returned(out.flow_result, out.response_metadata.response, out.shown)
       = Returned(brand_new.flow_result, brand_new.response_metadata.response,
                  brand_new.shown)

C15_ResetRestarts ==
  /\ [][\A sid \in SessionIds :
          (ResetConc(sid) /\ CallsOf(sid) = {})
             => sid \notin DOMAIN question_flow_sessions']_vars
  /\ [](\A sid \in was_reset :
          (sid \notin DOMAIN question_flow_sessions /\ CallsOf(sid) = {}) =>
             \A message \in Msgs :
                TreatedAsFirst(sid,
                  get_response_with_question_flow(catalog, question_flow_sessions,
                    answer_embeddings_store, sid, message, embeddings_available),
                  get_response_with_question_flow(catalog, EmptyDict, EmptyBag, sid,
                    message, embeddings_available)))

\* a session that was reset has its first question pending again
C15_Witness ==
  \E sid \in was_reset :
     /\ sid \in DOMAIN question_flow_sessions
     /\ question_flow_sessions[sid].current_question_id # NoneVal
     /\ question_flow_sessions[sid].answered_questions = {}
     /\ in_flight = EmptyBag

\* ------------------------------------------------------------------------
\* C18  Export filtering: no pair whose answer is empty, whitespace or a
\* placeholder of the blacklist is written to the database; and a pair is
\* dropped only because its question text is below the length threshold, its
\* answer is empty or whitespace, or its answer is a placeholder: an answer
\* that has a placeholder word inside a longer text is written.
\* ------------------------------------------------------------------------
\* the answer is nothing but a placeholder of the blacklist
MatchesPlaceholder(answer) == lower(Strip(answer)) \in placeholder_indicators

\* the call that was made has written its pairs
Exported == export_out # <<>> /\ export_out[1].db = "ok"

C18_ExportFiltering ==
  Exported =>
    /\ \A q \in DOMAIN export_out[1].valid_responses :
          /\ Strip(export_out[1].valid_responses[q]) # ""
          /\ ~MatchesPlaceholder(export_out[1].valid_responses[q])
    /\ \A question_text \in DOMAIN export_in[1].responses :
          Strip(question_text) \notin DOMAIN export_out[1].valid_responses
             => \/ Len(question_text) < MIN_QUESTION_LENGTH
                \/ Strip(export_in[1].responses[question_text]) = ""
                \/ MatchesPlaceholder(export_in[1].responses[question_text])

\* a call wrote one pair and dropped one with the answer "n/a"
C18_Witness ==
  /\ Exported
  /\ DOMAIN export_out[1].valid_responses # {}
  /\ \E question_text \in DOMAIN export_in[1].responses :
        /\ export_in[1].responses[question_text] = "n/a"
        /\ Strip(question_text) \notin DOMAIN export_out[1].valid_responses

\* ------------------------------------------------------------------------
\* C19  Scenario 4: save_user_responses called with "What is your age?" ->
\* "34", "label_only" -> "ignored" and "Any allergies?" -> "n/a" keeps exactly
\* the pair "What is your age?" -> "34" and writes it: the key that looks like
\* a label and the placeholder answer are dropped, the short question is kept.
\* ------------------------------------------------------------------------
Scenario4Responses ==
  [question_text \in {"What is your age?", "label_only", "Any allergies?"} |->
     CASE question_text = "What is your age?" -> "34"
       [] question_text = "label_only" -> "ignored"
       [] question_text = "Any allergies?" -> "n/a"]

C19_Scenario4Export ==
  (Exported /\ export_in[1].responses = Scenario4Responses) =>
    /\ export_out[1].valid_responses = Put(EmptyDict, "What is your age?", "34")
    /\ export_out[1].saved
    /\ export_out[1].collection[UserEmail][<<"What is your age?">>] = "34"
    /\ <<"label_only">> \notin DOMAIN export_out[1].collection[UserEmail]
    /\ <<"Any allergies?">> \in DOMAIN export_out[1].collection[UserEmail]
         => export_out[1].collection[UserEmail][<<"Any allergies?">>] # "n/a"

\* the call of scenario 4 was made on a database that answers
C19_Witness ==
  Exported /\ export_in[1].responses = Scenario4Responses

\* ------------------------------------------------------------------------
\* C20  Dependency cycles are rejected at load: an engine is never built on a
\* catalog in which a label depends on itself, directly or through other
\* labels, so no session is ever started and no call is ever answered on
\* such a catalog.
\* ------------------------------------------------------------------------
\* labels and everything they depend on through at most n steps
RECURSIVE DepsWithin(_, _, _)
DepsWithin(cat, labels, n) ==
  IF n = 0 THEN labels
  ELSE DepsWithin(cat, labels \cup UNION {DepsOf(cat, l) : l \in labels}, n - 1)

\* section 3: the dependency relation of cat is not a DAG
DependsOnItself(cat) ==
  \E l \in LabelsOf(cat) :
     l \in DepsWithin(cat, DepsOf(cat, l), Cardinality(LabelsOf(cat)))

C20_CyclesRejected ==
  DependsOnItself(catalog) =>
    /\ question_flow_sessions = EmptyDict
    /\ turns = EmptyDict
    /\ direct_state = FreshSessionState

\* a session of ChatbotEngine was started on the catalog in which X depends on
\* Y and Y on X
C20_Witness ==
  /\ catalog = CatCycle
  /\ \E sid \in SessionIds : sid \in DOMAIN question_flow_sessions /\ sid \in DOMAIN turns

\* ------------------------------------------------------------------------
\* C16  Every turn yields a question or completion: every call of
\* get_response, one during which the workflow raises included, returns
\* either the text of a catalog question that is eligible for its session or
\* the completion signal; never an error text or a greeting instead.
\* ------------------------------------------------------------------------
\* the call c returned the text of a question that is eligible for its session
ReturnedQuestion(c) ==
  /\ c.shown \in LabelsOf(catalog)
  /\ c.response_text = QuestionOf(catalog, c.shown).question
  /\ c.shown \in EligibleLabels(catalog,
                   question_flow_sessions[c.session_id].answered_questions)

C16_QuestionOrCompletion ==
  last_call # <<>> =>
    last_call[1].flow_complete \/ ReturnedQuestion(last_call[1])

\* a call during which the workflow raised has returned
C16_Witness ==
  last_call # <<>> /\ ~last_call[1].workflow_ok

\* ------------------------------------------------------------------------
\* C17  Persistence failure is non-fatal: when save_user_responses fails
\* during a call, the call still returns the next question or the completion
\* signal, the answer and the new current question of the call are in the
\* session store, and the failure is reported to the caller as a status.
\* ------------------------------------------------------------------------
\* the export of the call c failed
SinkFailed(c) == c.appended # <<>> /\ c.appended[1].status = "failed"

\* the answer given in c and the current question after c are stored
TurnCommitted(c) ==
  /\ c.answered # NoneVal =>
       /\ c.answered \in DOMAIN question_flow_sessions[c.session_id].answers
       /\ question_flow_sessions[c.session_id].answers[c.answered] = c.message
       /\ c.answered \in question_flow_sessions[c.session_id].answered_questions
  /\ ~c.flow_complete =>
       question_flow_sessions[c.session_id].current_question_id = c.shown

\* the caller of c is told that the answers were not saved
FailureReported(c) == contains("[ERROR] Question answers failed to save", c.response)

C17_PersistenceFailureNonFatal ==
  (last_call # <<>> /\ last_call[1].workflow_ok /\ SinkFailed(last_call[1])) =>
    /\ last_call[1].flow_complete \/ ReturnedQuestion(last_call[1])
    /\ TurnCommitted(last_call[1])
    /\ FailureReported(last_call[1])

\* the database raised during a call that returned the next question, and the
\* response ends with the failure notice
C17_Witness ==
  /\ last_call # <<>>
  /\ last_call[1].db = "error"
  /\ SinkFailed(last_call[1])
  /\ ReturnedQuestion(last_call[1])
  /\ TurnCommitted(last_call[1])
  /\ FailureReported(last_call[1])

\* ------------------------------------------------------------------------
\* C21  Labels stay internal: nothing returned to a caller of the transport,
\* by the chat endpoint or by the status endpoint, holds a label of the
\* catalog; only question text, completion and counters are returned.
\* ------------------------------------------------------------------------
\* the labels of the catalog that the value returned by the status endpoint holds
LabelsInStatus(status) ==
  {l \in LabelsOf(catalog) :
     \/ l \in status.answered_questions
     \/ l \in DOMAIN status.answers
     \/ \E e \in BagToSet(status.embeddings) : e.question_id = l}

\* the labels of the catalog that a response text of the chat endpoint holds
LabelsInText(text) == {l \in LabelsOf(catalog) : contains(l, text)}

C21_LabelsStayInternal ==
  /\ \A sid \in DOMAIN turns : LabelsInText(turns[sid].response) = {}
  /\ last_call # <<>> => LabelsInStatus(last_call[1].status) = {}

\* the status of a session with an answer was returned
C21_Witness ==
  /\ last_call # <<>>
  /\ last_call[1].status.active
  /\ DOMAIN last_call[1].status.answers # {}

\* ------------------------------------------------------------------------
\* C22  The persistence sink is idempotent and merging: saving the same pairs
\* twice for a user leaves the stored records as saving them once does, and
\* a save keeps every record stored before whose question text is not among
\* the pairs it writes.
\* ------------------------------------------------------------------------
\* the call number i was made on a database that answers
SavedOk(i) == i <= Len(export_out) /\ export_out[i].db = "ok"

\* the records of user_email in collection
RecordsOf(collection, user_email) ==
  IF user_email \in DOMAIN collection THEN collection[user_email] ELSE EmptyDict

\* the record at p belongs to one of the question texts written
WrittenAt(p, valid_responses) ==
  \E q \in DOMAIN valid_responses : p = <<q>> \/ p = PathOf(q)

Idempotent ==
  (SavedOk(1) /\ SavedOk(2)) => export_out[2].collection = export_out[1].collection

Merging ==
  \A i \in 1..Len(export_out) :
     SavedOk(i) =>
       \A p \in DOMAIN RecordsOf(export_out[i].before, UserEmail) :
          ~WrittenAt(p, export_out[i].valid_responses) =>
             /\ p \in DOMAIN RecordsOf(export_out[i].collection, UserEmail)
             /\ RecordsOf(export_out[i].collection, UserEmail)[p]
                  = RecordsOf(export_out[i].before, UserEmail)[p]

C22_IdempotentMerging == Idempotent /\ Merging

\* the same pairs were saved twice, on top of a record stored before
C22_Witness ==
  /\ SavedOk(1) /\ SavedOk(2)
  /\ DOMAIN export_out[1].valid_responses # {}
  /\ <<"Any allergies?">> \in DOMAIN RecordsOf(export_out[1].before, UserEmail)
  /\ export_out[2].collection = export_out[1].collection

\* ------------------------------------------------------------------------
\* C23  Selection is the minimum over all eligible questions: the label a
\* call emits is the first, under (index of the category in flow_order,
\* priority, number of the label), of ALL labels that are not answered and
\* whose dependencies are answered, ties going to the earlier catalog entry.
\* ------------------------------------------------------------------------
C23_SelectionIsMinimum ==
  \A k \in DOMAIN turns :
    (turns[k].current_question_id # NoneVal /\ ~turns[k].flow_complete) =>
      /\ turns[k].current_question_id
           \in EligibleLabels(catalog, StateOf(k).answered_questions)
      /\ turns[k].current_question_id
           = FirstEligible(catalog, StateOf(k).answered_questions).id

\* a call emitted a label of a catalog with three eligible labels
C23_Witness ==
  \E k \in DOMAIN turns :
    /\ turns[k].current_question_id # NoneVal
    /\ Cardinality(EligibleLabels(catalog, StateOf(k).answered_questions)) >= 3

\* ------------------------------------------------------------------------
\* C24  The dependency resolver is exact: for every catalog and every set of
\* answered labels, _get_available_questions returns a label if and only if
\* it is not answered and all its dependencies are answered, each once, and
\* changes no state.
\* ------------------------------------------------------------------------
\* the labels of the questions in the list available
IdsOf(available) == {available[i].id : i \in 1..Len(available)}

C24_ResolverExact ==
  last_call # <<>> =>
    /\ IdsOf(last_call[1].available)
         = EligibleLabels(catalog, last_call[1].answered_questions)
    /\ Len(last_call[1].available) = Cardinality(IdsOf(last_call[1].available))
    /\ question_flow_sessions = EmptyDict
    /\ answer_embeddings_store = EmptyBag

\* the resolver was called with a label answered on which another depends
C24_Witness ==
  /\ last_call # <<>>
  /\ \E l \in IdsOf(last_call[1].available) :
        DepsOf(catalog, l) # {} /\ DepsOf(catalog, l) \subseteq last_call[1].answered_questions

\* ------------------------------------------------------------------------
\* C25  answered_questions is a subset of asked_questions in the session
\* state after every call, through the wrapper and when process_message is
\* called directly with the state it returned.
\* ------------------------------------------------------------------------
C25_AnsweredSubsetAsked ==
  \A k \in DOMAIN turns :
    StateOf(k).answered_questions \subseteq StateOf(k).asked_questions

\* a session that has an answer
C25_Witness ==
  \E k \in DOMAIN turns : StateOf(k).answered_questions # {}

\* ------------------------------------------------------------------------
\* C26  The keys of answers are the answered labels in the stored session
\* state after every call: every answered label has an answer and every
\* answer belongs to an answered label.
\* ------------------------------------------------------------------------
C26_AnswersKeysAreAnswered ==
  \A k \in DOMAIN turns :
    DOMAIN StateOf(k).answers = StateOf(k).answered_questions

\* a session with two answers
C26_Witness ==
  \E k \in DOMAIN turns : Cardinality(DOMAIN StateOf(k).answers) >= 2

\* ------------------------------------------------------------------------
\* C27  The first input is not an answer: the call that handles the first
\* input of a fresh session leaves answered_questions and answers empty,
\* whatever the input is; the input is not stored as the answer of the
\* question that call emits.
\* ------------------------------------------------------------------------
\* the step is the first call of session sid of ChatbotEngine
FirstCallOf(sid) ==
  sid \notin DOMAIN question_flow_sessions /\ sid \in DOMAIN question_flow_sessions'

\* the step is the first call of process_message by the script
FirstDirectCall ==
  direct_state = FreshSessionState /\ Direct \notin DOMAIN turns /\ Direct \in DOMAIN turns'

C27_FirstInputNotAnswer ==
  [][/\ \A sid \in SessionIds :
          FirstCallOf(sid) =>
            /\ question_flow_sessions'[sid].answered_questions = {}
            /\ question_flow_sessions'[sid].answers = EmptyDict
     /\ FirstDirectCall =>
          /\ direct_state'.answered_questions = {}
          /\ direct_state'.answers = EmptyDict]_vars

\* after its first call a session has a current question and no answer
C27_Witness ==
  \E k \in DOMAIN turns :
    /\ turns[k].current_question_id # NoneVal
    /\ StateOf(k).current_question_id = turns[k].current_question_id
    /\ StateOf(k).answered_questions = {}
    /\ StateOf(k).asked_questions = {turns[k].current_question_id}

\* ------------------------------------------------------------------------
\* C28  One step per invocation: one call records an answer for at most one
\* label, the pending current question, and emits at most one question; it
\* never stores the same input as the answer of two labels and never asks
\* a second question before the next input.
\* ------------------------------------------------------------------------
\* the labels whose answer a call that led from before to after wrote
RecordedBy(before, after) ==
  {l \in DOMAIN after.answers :
     l \notin DOMAIN before.answers \/ after.answers[l] # before.answers[l]}

\* the labels that call asked
AskedBy(before, after) == after.asked_questions \ before.asked_questions

OneStep(before, after) ==
  /\ RecordedBy(before, after) \subseteq {before.current_question_id}
  /\ after.answered_questions \ before.answered_questions
       \subseteq {before.current_question_id}
  /\ Cardinality(AskedBy(before, after)) <= 1
  /\ after.current_question_id \notin {NoneVal, before.current_question_id}
       => AskedBy(before, after) \subseteq {after.current_question_id}

C28_OneStepPerInvocation ==
  [][/\ \A sid \in SessionIds :
          sid \in DOMAIN question_flow_sessions' =>
            OneStep(session_state_of(question_flow_sessions, sid),
                    question_flow_sessions'[sid])
     /\ OneStep(direct_state, direct_state')]_vars

\* a call has recorded the answer of the pending question and asked the next
C28_Witness ==
  \E k \in DOMAIN turns :
    /\ StateOf(k).answered_questions # {}
    /\ StateOf(k).current_question_id # NoneVal
    /\ StateOf(k).current_question_id \notin StateOf(k).answered_questions
    /\ turns[k].response = QuestionOf(catalog, StateOf(k).current_question_id).question

\* ------------------------------------------------------------------------
\* C29  Merge of answers, newest write wins per label: the call in progress
\* holds the answers of its session state and the input it has just written
\* against its current question. When the memory and the call in progress
\* both hold an answer for a label, the merged answer is the one of the call
\* in progress (for the current question: the input of this call); a label
\* only one of the two holds keeps the answer that one holds.
\* ------------------------------------------------------------------------
\* the answers of the call in progress: the stored ones and the input written
\* against the current question
InProgressAnswers(st, user_message) ==
  [l \in InProgressAnswerKeys(st) |->
     IF l = st.current_question_id THEN user_message ELSE st.answers[l]]

InputOnlyAt(d, cur, existing, st) ==
  \A l \in (DOMAIN d) \ {cur} :
     /\ l \in DOMAIN existing.answers \cup DOMAIN st.answers
     /\ d[l] = DictMerge(existing.answers, st.answers)[l]

C30_WitnessLoaded ==
  /\ merge_out # <<>>
  /\ merge_in[1].session_state.current_question_id = NoneVal
  /\ merge_in[1].existing.current_question_id # NoneVal
  /\ merge_out[1].initial_state.current_question_id = merge_in[1].existing.current_question_id

\* ------------------------------------------------------------------------
\* C31  Copy-on-read of the session store: no value the status operation
\* hands out is an object of the stored state, so it shares no mutable
\* structure with it.
\* ------------------------------------------------------------------------
C31_CopyOnRead ==
  last_call # <<>> => last_call[1].shares = {}

\* the status of a session with a stored answer was handed out
C31_Witness ==
  /\ last_call # <<>>
  /\ last_call[1].session_id \in DOMAIN question_flow_sessions
  /\ DOMAIN question_flow_sessions[last_call[1].session_id].answers # {}
  /\ last_call[1].status.answers = question_flow_sessions[last_call[1].session_id].answers

\* ------------------------------------------------------------------------
\* C32  The export is keyed by question text, the last write wins: when
\* several answered labels have one question text, the export holds one
\* record for that text, and its answer is the answer, among those of these
\* labels that are not blank, that was written last.
\* ------------------------------------------------------------------------
\* the positions in order of the labels whose text is question_text and whose
\* answer is not blank
WritesOf(cat, session_state, order, question_text) ==
  {i \in 1..Len(order) :
     /\ text_of_label(cat, session_state, order[i]) = question_text
     /\ Strip(session_state.answers[order[i]]) # ""}

\* the answer written last for question_text
LastWritten(cat, session_state, order, question_text) ==
  LET writes == WritesOf(cat, session_state, order, question_text)
      last == CHOOSE i \in writes : \A j \in writes : j <= i
  IN Strip(session_state.answers[order[last]])

C32_ExportLastWriteWins ==
  export_out # <<>> =>
    LET st == export_in[1].session_state
        order == export_in[1].order
        all_answers == export_out[1].all_answers
    IN \A question_text \in DOMAIN all_answers :
          /\ WritesOf(catalog, st, order, question_text) # {}
          /\ all_answers[question_text] = LastWritten(catalog, st, order, question_text)

\* C32 witness: A_1 and then B_1, of one text, were answered differently and
\* the export holds a record for their text
C32_Witness ==
  /\ export_out # <<>>
  /\ export_in[1].order = <<"A_1", "B_1">>
  /\ Strip(export_in[1].session_state.answers["A_1"]) # ""
  /\ Strip(export_in[1].session_state.answers["B_1"]) # ""
  /\ export_in[1].session_state.answers["A_1"] # export_in[1].session_state.answers["B_1"]
  /\ DOMAIN export_out[1].all_answers = {"Do you have any known allergies?"}

\* ------------------------------------------------------------------------
\* C33  Concurrent saves are atomic and incremental: once two calls of
\* save_user_responses for one email have returned, however their database
\* operations interleaved and whether or not the email had a document, the
\* collection holds exactly one document of the email, and that document
\* holds a record for every valid question of both calls, with an answer
\* one of the calls gave it.
\* ------------------------------------------------------------------------
BothSaved == \A c \in SaveCalls : last_call[c] \in {"True", "False"}

HoldsRecordsOf(document, c) ==
  \A q \in DOMAIN valid_responses_of(export_in[c]) :
     /\ <<q>> \in DOMAIN document.consultation_results
     /\ \E d \in SaveCalls :
          /\ q \in DOMAIN valid_responses_of(export_in[d])
          /\ document.consultation_results[<<q>>] = valid_responses_of(export_in[d])[q]

C33_ConcurrentSaves ==
  BothSaved =>
    /\ Cardinality(documents_of(responses_collection, UserEmail)) = 1
    /\ \A c \in SaveCalls :
         HoldsRecordsOf(responses_collection[find_one(responses_collection, UserEmail)], c)

\* C33 witness: the email had no document, the two calls wrote different
\* questions and both returned True
C33_Witness ==
  /\ \A c \in SaveCalls : last_call[c] = "True"
  /\ DOMAIN export_in[1] # DOMAIN export_in[2]
  /\ \A i \in 1..Len(responses_collection) :
        <<"Any allergies?">> \notin DOMAIN responses_collection[i].consultation_results

\* ------------------------------------------------------------------------
\* C34  Termination of a session: an input to a session with a pending
\* question answers that question, which was not answered before, and loses
\* no answered label; the answered labels are labels of the catalog; a
\* completed session stays completed; and a session with a pending question
\* is completed eventually when the inputs keep coming. So a session is
\* completed after at most as many answering inputs as the catalog has labels.
\* ------------------------------------------------------------------------
Pending(k) == k \in DOMAIN turns /\ StateOf(k).current_question_id # NoneVal

Completed(k) ==
  /\ k \in DOMAIN turns
  /\ turns[k].flow_complete
  /\ StateOf(k).current_question_id = NoneVal

\* the call that led from state a to state b answered the pending question of a
AnswersPending(a, b) ==
  (a.current_question_id # NoneVal /\ b # a) =>
     /\ a.current_question_id \notin a.answered_questions
     /\ a.current_question_id \in b.answered_questions
     /\ a.answered_questions \subseteq b.answered_questions

C34_Termination ==
  /\ [](\A k \in FlowKeys \cap DOMAIN turns :
          StateOf(k).answered_questions \subseteq LabelsOf(catalog))
  /\ [][\A k \in FlowKeys :
          /\ (Pending(k) /\ k \in DOMAIN turns') => AnswersPending(StateOf(k), StateOf(k)')
          /\ Completed(k) => Completed(k)']_vars
  /\ \A k \in FlowKeys : Pending(k) ~> Completed(k)

\* C34 witness: scenario 1 is completed with A_1 and A_2 answered
C34_Witness ==
  /\ catalog = CatScenario1
  /\ \E k \in FlowKeys :
        /\ Completed(k)
        /\ StateOf(k).answered_questions = {"A_1", "A_2"}

\* ------------------------------------------------------------------------
\* C35  Completion means the whole catalog was covered: on a catalog whose
\* dependencies are labels of the catalog and form no cycle, a call reports
\* flow_complete only when every label of the catalog is answered.
\* ------------------------------------------------------------------------
\* section 3: every dependency is a label of the catalog and no label depends
\* on itself
WellFormedCatalog(cat) ==
  /\ \A l \in LabelsOf(cat) : DepsOf(cat, l) \subseteq LabelsOf(cat)
  /\ ~DependsOnItself(cat)

C35_CompleteMeansCovered ==
  WellFormedCatalog(catalog) =>
    \A k \in FlowKeys \cap DOMAIN turns :
       turns[k].flow_complete => StateOf(k).answered_questions = LabelsOf(catalog)

\* C35 witness: a call of scenario 1 reported flow_complete
C35_Witness ==
  /\ catalog = CatScenario1
  /\ \E k \in FlowKeys \cap DOMAIN turns : turns[k].flow_complete

\* ------------------------------------------------------------------------
\* C36  The pending question is recorded as asked: in every stored session
\* state, a current_question_id that is set is a member of asked_questions.
\* ------------------------------------------------------------------------
C36_PendingIsAsked ==
  \A sid \in DOMAIN question_flow_sessions :
     question_flow_sessions[sid].current_question_id # NoneVal =>
       question_flow_sessions[sid].current_question_id
         \in question_flow_sessions[sid].asked_questions

\* C36 witness: a question other than the first is pending in a stored state
C36_Witness ==
  \E sid \in DOMAIN question_flow_sessions :
     /\ question_flow_sessions[sid].current_question_id # NoneVal
     /\ question_flow_sessions[sid].answered_questions # {}
     /\ question_flow_sessions[sid].current_question_id
          \notin question_flow_sessions[sid].answered_questions

\* ------------------------------------------------------------------------
\* C37  The question shown is the question stored as pending: after a call
\* that did not complete the flow, the stored current_question_id is the
\* label of the question whose text the call returned, if it returned one,
\* and when a current_question_id is stored the text returned is the text of
\* that question; also on a catalog with a name question.
\* ------------------------------------------------------------------------
C37_ShownIsPending ==
  \A sid \in SessionIds \cap DOMAIN turns \cap DOMAIN question_flow_sessions :
     ~turns[sid].flow_complete =>
        /\ turns[sid].shown # NoneVal =>
             question_flow_sessions[sid].current_question_id = turns[sid].shown
        /\ question_flow_sessions[sid].current_question_id \in LabelsOf(catalog) =>
             turns[sid].response =
               QuestionOf(catalog, question_flow_sessions[sid].current_question_id).question

\* C37 witness: the name question is stored as the pending question
C37_Witness ==
  /\ catalog = CatName
  /\ \E sid \in SessionIds \cap DOMAIN turns \cap DOMAIN question_flow_sessions :
        /\ ~turns[sid].flow_complete
        /\ question_flow_sessions[sid].current_question_id = "A_1"

\* ------------------------------------------------------------------------
\* C38  The normalization of a flat list is injective: the catalog has one
\* entry per question of the list, no two questions of the list receive the
\* same label, and the dependencies of the entry of a question are the
\* labels that the questions it named received.
\* ------------------------------------------------------------------------
\* the position in questions_list of the question with the id old_id
PositionOf(questions_list, old_id) ==
  CHOOSE i \in 1..Len(questions_list) : questions_list[i].id = old_id

C38_FlattenInjective ==
  export_out # <<>> =>
    LET questions_list == export_in[1]
        loaded == export_out[1]
    IN /\ Cardinality(DOMAIN loaded.questions) = Len(questions_list)
       /\ \A i, j \in 1..Len(questions_list) :
             i # j => loaded.labels[i] # loaded.labels[j]
       /\ \A i \in 1..Len(questions_list) :
             /\ loaded.labels[i] \in DOMAIN loaded.questions
             /\ loaded.questions[loaded.labels[i]].old_id = questions_list[i].id
             /\ loaded.labels[i] \in DOMAIN loaded.dependencies
             /\ loaded.dependencies[loaded.labels[i]] =
                  {loaded.labels[PositionOf(questions_list, d)] :
                     d \in questions_list[i].dependencies}

\* C38 witness: a list whose first two questions are the first questions of
\* two categories was loaded
C38_Witness ==
  /\ export_out # <<>>
  /\ Len(export_in[1]) >= 2
  /\ export_in[1][1].category = "introduction"
  /\ export_in[1][2].category = "demographics"
  /\ export_in[1][2].dependencies = {"q1"}

\* ------------------------------------------------------------------------
\* C39  A reset of session s changes nothing that belongs to another session
\* t: the stored state of t stays as it was, and the entries of
\* answer_embeddings_store that the answers of t produced stay in the store.
\* ------------------------------------------------------------------------
\* the entries of the store that hold an answer stored for session t
AnswerDataOf(t) ==
  IF t \in DOMAIN question_flow_sessions
  THEN {e \in BagToSet(answer_embeddings_store) :
          /\ e.question_id \in DOMAIN question_flow_sessions[t].answers
          /\ question_flow_sessions[t].answers[e.question_id] = e.answer}
  ELSE {}

C39_ResetScoped ==
  [][\A s \in IsoSessionIds :
       ResetAlone(s) =>
         \A t \in IsoSessionIds \ {s} :
            /\ StoredUnchanged(t)
            /\ \A e \in AnswerDataOf(t) : BagIn(e, answer_embeddings_store')]_vars

\* C39 witness: session "t" holds an answer whose entry is no longer in the
\* store, after a reset of session "s"
C39_Witness ==
  /\ "s" \notin DOMAIN question_flow_sessions
  /\ "t" \in DOMAIN question_flow_sessions
  /\ question_flow_sessions["t"].answers # EmptyDict
  /\ answer_embeddings_store = EmptyBag

====
